---- MODULE Spec2Model ----
(***************************************************************************)
(* A model of the rtrace path tracer: intersection routines, the bounding  *)
(* volume hierarchy, the scene integrator, the block renderer of the       *)
(* camera and the mesh loader.                                             *)
(*                                                                         *)
(* Numbers.  The Python code computes in floats.  The model computes in    *)
(* exact rationals <<n, d>> (d > 0, lowest terms); <<1, 0>> is math.inf,   *)
(* <<-1, 0>> is -math.inf and <<0, 0>> is None.  Inputs are integer        *)
(* vectors chosen so that every square root the code takes is exact.       *)
(* HitRecord is modelled by its fields t, p and mat; normal, front_face,   *)
(* u and v (acos/atan2 of the hit point) are not modelled.                 *)
(***************************************************************************)
EXTENDS Integers, Sequences, FiniteSets, TLC

VARIABLES
    \* ---- intersection harness (rtrace/assets/hittable.py, rtrace/scene.py)
    objects,      \* the primitives handed to the containers
    ray,          \* the ray under test
    ray_t,        \* the search interval handed to hit
    rec0,         \* the caller's HitRecord before the call
    hl_plain,     \* HittableList(objects, use_bvh=False)
    hl_bvh,       \* HittableList(objects, use_bvh=True)
    scene_assets, \* Scene(objects).assets
    out_sphere,   \* outcome of objects[0].hit when it is a Sphere
    out_plain,    \* outcome of hl_plain.hit
    out_bvh,      \* outcome of hl_bvh.hit
    out_scene,    \* outcome of Scene.hit
    hpc,          \* position of the harness
    \* ---- Scene.ray_color / r_ray_color (rtrace/scene.py)
    limit,        \* the bounce limit handed to ray_color
    cpc,          \* "ray_color", "r_ray_color", "return", "done" ("idle": no call)
    depth,        \* the depth argument of the innermost r_ray_color call
    stack,        \* the frames waiting for their recursive call: attenuation, from_emission
    retval,       \* the Color being returned
    scatters,     \* rays scattered so far along the light path
    \* ---- Camera.render_mono / render_multi (rtrace/camera.py)
    img_width,
    img_height,
    samples,
    mono_pc,      \* render_mono: "start", "saved", "raised" ("idle": no call)
    mono_file,    \* the image render_mono saved (<<>>: none)
    mpc,          \* render_multi: "start", "pool", "paste", "saved", "raised" ("idle": no call)
    block_list,   \* the block ranges dispatched to the pool, in dispatch order
    task,         \* state of each _render_block task: "running", "done", "failed"
    output,       \* what each finished task returned: (pos, block image)
    completion,   \* the order in which the tasks completed
    results,      \* the list pool.starmap returned
    im,           \* the canvas of render_multi
    paste_log,    \* the pastes done so far: position used, block that produced the image
    multi_file,   \* the image render_multi saved (<<>>: none)
    \* ---- Model.from_obj (rtrace/assets/hittable.py)
    vertex_lines, \* the lines of the vertex block of the file
    face_lines,   \* the lines of the face block of the file
    opc,          \* "vertices", "faces", "construct", "returned", "raised" ("idle": no call)
    line_no,      \* index of the next line of the current block
    vertices,     \* the vertices parsed so far
    face_list,    \* the Triangles constructed so far
    obj_error,    \* the exception from_obj raised ("none": none)
    model,        \* the Model returned (<<>>: none)
    \* ---- AABB.hit and AABB.from_box (rtrace/assets/hittable.py)
    b_box0,       \* three boxes: b_box0 is the one hit, all three are united
    b_box1,
    b_box2,
    b_ray,        \* the ray given to b_box0.hit
    b_ray_t,      \* the interval given to b_box0.hit
    b_hit,        \* what b_box0.hit did: "true", "false", "ZeroDivisionError" ("notrun": no call)
    b_union,      \* the boxes from_box returned (<<>>: no call)
    bpc,          \* "hit", "union", "done" ("idle": no call)
    \* ---- construction of one primitive and one call of its hit
    sh_kind,      \* "sphere", "quad" or "triangle"
    sh_at,        \* the centre of the sphere, the corner of the quad or triangle
    sh_size,      \* the radius of the sphere, the edge of the quad or triangle
    shape,        \* the primitive constructed (<<>>: none)
    sh_ray,       \* the ray given to shape.hit
    sh_ray_t,     \* the interval given to shape.hit
    sh_out,       \* the outcome of shape.hit
    spc,          \* "new", "hit", "done" ("idle": no call)
    \* ---- HittableList.__init__, add_asset and BVHNode.__init__
    t_objects,    \* the objects given to the constructor of the list
    t_use_bvh,    \* the use_bvh given to the constructor of the list
    t_list,       \* the HittableList (<<>>: not constructed)
    t_added,      \* the number of add_asset calls made after construction
    t_node,       \* the BVHNode built from the assets of the list (<<>>: none)
    t_axes,       \* the comparators random.choice picked while t_node was built
    t_given,      \* the assets given to the list, constructor first
    tpc,          \* "new", "add", "done" ("idle": no call)
    \* ---- Camera.__init__ and the setters of Camera (rtrace/camera.py)
    cam_args,     \* the arguments of the constructor
    cam_rounding, \* whether the float cross product of parallel vectors is exactly 0
    cam,          \* the Camera (<<>>: not constructed)
    cam_error,    \* the exception the constructor raised ("none": none)
    kpc,          \* "new", "set", "raised" ("idle": no call)
    \* ---- Scene.add_asset, Scene.clear and Scene.ray_color on the scene built
    s_skybox,     \* the skybox of the scene
    s_assets,     \* Scene.assets
    s_total,      \* assets given to the scene since it was constructed
    s_added,      \* assets given to the scene since it was constructed or last cleared
    s_ray,        \* the ray given to ray_color (<<>>: no call)
    s_limit,      \* the limit given to ray_color
    s_color,      \* the Color ray_color returned (<<>>: none)
    s_mat_called, \* whether ray_color called emitted or scatter of a material
    scene_pc,     \* "new", "edit", "done" ("idle": no call)
    \* ---- ImageMap.value and Textured.get_color (rtrace/textures.py, rtrace/skybox.py)
    tex_mode,     \* the mode of the image: "L", "P", "RGB" or "RGBA"
    tex_size,     \* the (width, height) of the image
    tex_at,       \* the (u, v) given to value, or the direction of the ray given to get_color
    tex_out,      \* the outcome of the lookup
    tex_pc,       \* "new", "done" ("idle": no call)
    \* ---- Color.as_tuple (rtrace/color.py)
    q_samples,    \* Camera.samples
    q_pixel_color,\* the local pixel_color of the pixel loop
    q_iter,       \* passes of the sample loop made
    q_out,        \* the outcome of as_tuple(256), the value given to putpixel
    quant_pc,     \* "sample", "done" ("idle": no call)
    \* ---- Camera.get_ray (rtrace/camera.py)
    g_cam,        \* the geometry of the Camera, as its constructor set it
    g_lens,       \* its defocus_angle, defocus_disc_u, defocus_disc_v and offset server
    g_pixel,      \* the (i, j, iter) given to get_ray (<<>>: no call)
    g_offset,     \* what self.offset_server(iter) returned
    g_disc,       \* what Vector3.random_on_unit_disc() returned (<<>>: not called)
    g_ray,        \* the Ray get_ray returned (<<>>: none)
    getray_pc,    \* "call", "done" ("idle": no call)
    \* ---- Interval.expand (rtrace/assets/hittable.py, rtrace/hittable.py)
    e_interval,   \* the Interval expand is called on
    e_delta,      \* the delta given to expand
    e_result,     \* the Interval expand returned (<<>>: no call)
    e_receiver,   \* the Interval expand was called on, after the call
    expand_pc,    \* "call", "done" ("idle": no call)
    \* ---- the pixel loops of render_mono and _render_block (rtrace/camera.py)
    v_width,      \* Camera.img_width
    v_height,     \* Camera.img_height
    v_blocks,     \* the block ranges of render_multi (<<>>: not generated)
    v_rendered,   \* the blocks _render_block has run for
    v_multi,      \* for each pixel of the image, the passes of the block loops made for it
    v_multi_out,  \* the coordinates outside the image the block loops came to
    v_mono,       \* for each pixel of the image, the passes of the loop of render_mono made for it
    v_mono_out,   \* the coordinates outside the image the loop of render_mono came to
    v_mono_done,  \* whether the loop of render_mono has run
    cover_pc,     \* "start", "blocks" ("idle": no call)
    \* ---- BVHNode(asset_list, start, end) of rtrace/hittable.py
    o_list,       \* the asset_list given to BVHNode
    o_axes,       \* the comparators random.choice picks, by the depth and side of the node
    o_node,       \* the BVHNode constructed (<<>>: none)
    o_after,      \* asset_list after the construction
    old_pc,       \* "new", "done" ("idle": no call)
    \* ---- the calls of BVHNode.__init__ during one construction
    bd_entry,     \* the constructor that asks for the tree: "HittableList", "Model"
    bd_len,       \* the number of objects (faces) given to it
    bd_use_bvh,   \* its use_bvh
    bd_stack,     \* the frames of BVHNode.__init__, the innermost last
    bd_calls,     \* the calls of BVHNode.__init__ made so far
    build_pc      \* "new", "building", "done", "raised" ("idle": no call)

hitVars == <<objects, ray, ray_t, rec0, hl_plain, hl_bvh, scene_assets,
             out_sphere, out_plain, out_bvh, out_scene, hpc>>

colorVars == <<limit, cpc, depth, stack, retval, scatters>>

renderVars == <<img_width, img_height, samples, mono_pc, mono_file, mpc, block_list, task,
                output, completion, results, im, paste_log, multi_file>>

objVars == <<vertex_lines, face_lines, opc, line_no, vertices, face_list, obj_error, model>>

boxVars == <<b_box0, b_box1, b_box2, b_ray, b_ray_t, b_hit, b_union, bpc>>

shapeVars == <<sh_kind, sh_at, sh_size, shape, sh_ray, sh_ray_t, sh_out, spc>>

treeVars == <<t_objects, t_use_bvh, t_list, t_added, t_node, t_axes, t_given, tpc>>

camVars == <<cam_args, cam_rounding, cam, cam_error, kpc>>

sceneVars == <<s_skybox, s_assets, s_total, s_added, s_ray, s_limit, s_color, s_mat_called,
               scene_pc>>

textureVars == <<tex_mode, tex_size, tex_at, tex_out, tex_pc>>

quantVars == <<q_samples, q_pixel_color, q_iter, q_out, quant_pc>>

getrayVars == <<g_cam, g_lens, g_pixel, g_offset, g_disc, g_ray, getray_pc>>

expandVars == <<e_interval, e_delta, e_result, e_receiver, expand_pc>>

coverVars == <<v_width, v_height, v_blocks, v_rendered, v_multi, v_multi_out, v_mono,
               v_mono_out, v_mono_done, cover_pc>>

oldVars == <<o_list, o_axes, o_node, o_after, old_pc>>

buildVars == <<bd_entry, bd_len, bd_use_bvh, bd_stack, bd_calls, build_pc>>

unitVars == <<sceneVars, textureVars, quantVars, getrayVars, expandVars, coverVars,
              oldVars, buildVars>>

vars == <<hitVars, colorVars, renderVars, objVars, boxVars, shapeVars, treeVars, camVars,
          unitVars>>

(***************************************************************************)
(* Bounds                                                                  *)
(***************************************************************************)
MaxAssets == 3

(***************************************************************************)
(* Exact rational arithmetic                                               *)
(***************************************************************************)
Abs(x) == IF x < 0 THEN -x ELSE x

RECURSIVE GCD(_, _)
GCD(a, b) == IF b = 0 THEN a ELSE GCD(b, a % b)

Rat(n, d) ==
    LET g == GCD(Abs(n), Abs(d))
        s == IF d < 0 THEN -1 ELSE 1
    IN  <<(s * n) \div g, (s * d) \div g>>

I2R(n) == <<n, 1>>
Inf == <<1, 0>>
NegInf == <<-1, 0>>
None == <<0, 0>>

RLt(a, b) == IF a[2] = 0 /\ b[2] = 0 THEN a[1] < b[1]
             ELSE a[1] * b[2] < b[1] * a[2]
RLe(a, b) == ~RLt(b, a)
RMin(a, b) == IF RLt(b, a) THEN b ELSE a
RMax(a, b) == IF RLt(a, b) THEN b ELSE a
RAdd(a, b) == Rat(a[1] * b[2] + b[1] * a[2], a[2] * b[2])
RSub(a, b) == Rat(a[1] * b[2] - b[1] * a[2], a[2] * b[2])
RMul(a, b) == Rat(a[1] * b[1], a[2] * b[2])
RDiv(a, b) == Rat(a[1] * b[2], a[2] * b[1])

IsSquare(n) == n >= 0 /\ \E s \in 0..n : s * s = n
Sqrt(n) == CHOOSE s \in 0..n : s * s = n

(***************************************************************************)
(* Vector3 (rtrace/vec3.py): integer vectors for the inputs, rational      *)
(* vectors for computed points.                                            *)
(***************************************************************************)
VAdd(a, b) == <<a[1] + b[1], a[2] + b[2], a[3] + b[3]>>
VSub(a, b) == <<a[1] - b[1], a[2] - b[2], a[3] - b[3]>>
VNeg(a) == <<-a[1], -a[2], -a[3]>>
dot(a, b) == a[1] * b[1] + a[2] * b[2] + a[3] * b[3]
cross(a, b) == <<a[2] * b[3] - a[3] * b[2],
                 a[3] * b[1] - a[1] * b[3],
                 a[1] * b[2] - a[2] * b[1]>>
length_squared(a) == dot(a, a)

V2R(a) == <<I2R(a[1]), I2R(a[2]), I2R(a[3])>>
RVSub(a, b) == <<RSub(a[1], b[1]), RSub(a[2], b[2]), RSub(a[3], b[3])>>
RVDot(a, b) == RAdd(RAdd(RMul(a[1], b[1]), RMul(a[2], b[2])), RMul(a[3], b[3]))
RVCross(a, b) == <<RSub(RMul(a[2], b[3]), RMul(a[3], b[2])),
                   RSub(RMul(a[3], b[1]), RMul(a[1], b[3])),
                   RSub(RMul(a[1], b[2]), RMul(a[2], b[1]))>>
NoneVec == <<None, None, None>>

\* Ray.at(t) = origin + t * direction
RayAt(r, t) == <<RAdd(I2R(r.origin[1]), RMul(t, I2R(r.direction[1]))),
                 RAdd(I2R(r.origin[2]), RMul(t, I2R(r.direction[2]))),
                 RAdd(I2R(r.origin[3]), RMul(t, I2R(r.direction[3])))>>

(***************************************************************************)
(* Interval                                                                *)
(***************************************************************************)
Interval(lo, hi) == [min |-> lo, max |-> hi]
IntervalContains(iv, x) == RLe(iv.min, x) /\ RLe(x, iv.max)
IntervalSurrounds(iv, x) == RLt(iv.min, x) /\ RLt(x, iv.max)

\* a from_intervals that keeps the upper end of its first argument
IntervalFromIntervalsLeftMax(a, b) == Interval(RMin(a.min, b.min), a.max)

\* Interval.from_intervals
IntervalFromIntervals(a, b) == Interval(RMin(a.min, b.min), RMax(a.max, b.max))

(***************************************************************************)
(* AABB                                                                    *)
(***************************************************************************)
AABB(x, y, z) == [x |-> x, y |-> y, z |-> z]

AABBFromPoints(a, b) ==
    AABB(IF a[1] <= b[1] THEN Interval(I2R(a[1]), I2R(b[1])) ELSE Interval(I2R(b[1]), I2R(a[1])),
         IF a[2] <= b[2] THEN Interval(I2R(a[2]), I2R(b[2])) ELSE Interval(I2R(b[2]), I2R(a[2])),
         IF a[3] <= b[3] THEN Interval(I2R(a[3]), I2R(b[3])) ELSE Interval(I2R(b[3]), I2R(a[3])))

\* a from_box that returns its first argument
AABBFromBoxFirst(box0, box1) == box0

\* AABB.from_box
AABBFromBox(box0, box1) ==
    AABB(IntervalFromIntervals(box0.x, box1.x),
         IntervalFromIntervals(box0.y, box1.y),
         IntervalFromIntervals(box0.z, box1.z))

\* the (interval, direction component, origin component) triples of _axis_interval
AxisInterval(box, r) ==
    << <<box.x, r.direction[1], r.origin[1]>>,
       <<box.y, r.direction[2], r.origin[2]>>,
       <<box.z, r.direction[3], r.origin[3]>> >>

\* One pass of the loop body of AABB.hit for one axis:
\* "raise" when the direction component is 0 (1.0 / 0), "false" when the
\* loop returns False at this axis, "next" when the loop goes on.
AABBHitAxis(pair, rt) ==
    LET ax == pair[1]
        adinv == pair[2]
        orig == pair[3]
    IN  IF adinv = 0 THEN "raise"
        ELSE LET t0 == RMul(RSub(ax.min, I2R(orig)), I2R(adinv))
                 t1 == RMul(RSub(ax.max, I2R(orig)), I2R(adinv))
                 ray_t_min == RMin(RMin(rt.min, t0), t1)
                 ray_t_max == RMax(RMax(rt.max, t0), t1)
             IN  IF RLe(ray_t_max, ray_t_min) THEN "false" ELSE "next"

\* AABB.hit: "true", "false" or "ZeroDivisionError"
AABBHit(box, r, rt) ==
    LET ps == AxisInterval(box, r)
        a1 == AABBHitAxis(ps[1], rt)
        a2 == AABBHitAxis(ps[2], rt)
        a3 == AABBHitAxis(ps[3], rt)
    IN  IF a1 # "next" THEN (IF a1 = "raise" THEN "ZeroDivisionError" ELSE "false")
        ELSE IF a2 # "next" THEN (IF a2 = "raise" THEN "ZeroDivisionError" ELSE "false")
        ELSE IF a3 # "next" THEN (IF a3 = "raise" THEN "ZeroDivisionError" ELSE "false")
        ELSE "true"

(***************************************************************************)
(* HitRecord and outcomes of a hit call                                    *)
(***************************************************************************)
HitRecord == [t |-> None, p |-> NoneVec, mat |-> "None"]

\* the outcome of a call hit(r, ray_t, rec): the exception raised ("none" when
\* the call returns), the value returned, and rec and ray_t after the call
Outcome(exc, ret, rec, rt) == [exc |-> exc, hit |-> ret, rec |-> rec, ray_t |-> rt]
NotRun == [exc |-> "notrun"]

(***************************************************************************)
(* Sphere                                                                  *)
(***************************************************************************)
Sphere(center, radius, mat) ==
    [kind |-> "sphere", center |-> center, radius |-> radius, mat |-> mat,
     bbox |-> AABBFromPoints(VNeg(<<radius, radius, radius>>), <<radius, radius, radius>>)]

SphereA(s, r) == length_squared(r.direction)
SphereH(s, r) == dot(r.direction, VSub(s.center, r.origin))
SphereC(s, r) == length_squared(VSub(s.center, r.origin)) - (s.radius * s.radius)
SphereDiscriminant(s, r) == (SphereH(s, r) * SphereH(s, r)) - (SphereA(s, r) * SphereC(s, r))

\* a Sphere.hit that tries the larger root first
SphereFirstRootLarger(h, sqrtd, a) == Rat(h + sqrtd, a)

\* the root Sphere.hit tries first
SphereFirstRoot(h, sqrtd, a) == Rat(h - sqrtd, a)

SphereHit(s, r, rt, rec) ==
    LET a == SphereA(s, r)
        h == SphereH(s, r)
        discriminant == SphereDiscriminant(s, r)
    IN  IF discriminant < 0 THEN Outcome("none", FALSE, rec, rt)
        ELSE IF a = 0 THEN Outcome("ZeroDivisionError", FALSE, rec, rt)
        ELSE LET sqrtd == Sqrt(discriminant)
                 root1 == SphereFirstRoot(h, sqrtd, a)
                 root2 == Rat(h + sqrtd, a)
                 root == IF IntervalSurrounds(rt, root1) THEN root1 ELSE root2
             IN  IF ~IntervalSurrounds(rt, root1) /\ ~IntervalSurrounds(rt, root2)
                 THEN Outcome("none", FALSE, rec, rt)
                 ELSE Outcome("none", TRUE,
                              [t |-> root, p |-> RayAt(r, root), mat |-> s.mat], rt)

(***************************************************************************)
(* Quad                                                                    *)
(***************************************************************************)
Quad(origin, u, v, mat) ==
    [kind |-> "quad", center |-> origin, u |-> u, v |-> v, mat |-> mat,
     bbox |-> AABBFromBox(AABBFromPoints(origin, VAdd(VAdd(origin, u), v)),
                          AABBFromPoints(VAdd(origin, u), VAdd(origin, v)))]

\* abs(num / den) < 1e-8 for integers num and den > 0
NearZero(num, den) == Abs(num) <= (den - 1) \div 100000000

QuadHit(q, r, rt, rec) ==
    LET n == cross(q.u, q.v)
        nlen == Sqrt(dot(n, n))                     \* |n|; normal = n / |n|
        denomNum == dot(n, r.direction)             \* denom = denomNum / |n|
    IN  IF NearZero(denomNum, nlen) THEN Outcome("none", FALSE, rec, rt)
        ELSE LET t == Rat(dot(n, q.center) - dot(n, r.origin), denomNum)
             IN  IF ~IntervalContains(rt, t) THEN Outcome("none", FALSE, rec, rt)
                 ELSE LET intersection == RayAt(r, t)
                          planar == RVSub(intersection, V2R(q.center))
                          w == <<Rat(n[1], dot(n, n)), Rat(n[2], dot(n, n)), Rat(n[3], dot(n, n))>>
                          alpha == RVDot(w, RVCross(planar, V2R(q.v)))
                          beta == RVDot(w, RVCross(V2R(q.u), planar))
                          unit == Interval(I2R(0), I2R(1))
                      IN  IF ~IntervalContains(unit, alpha) \/ ~IntervalContains(unit, beta)
                          THEN Outcome("none", FALSE, rec, rt)
                          ELSE Outcome("none", TRUE,
                                       [t |-> t, p |-> intersection, mat |-> q.mat], rt)

(***************************************************************************)
(* BVHNode                                                                 *)
(***************************************************************************)
AxisMin(asset, axis) ==
    IF axis = 1 THEN asset.bbox.x.min
    ELSE IF axis = 2 THEN asset.bbox.y.min
    ELSE asset.bbox.z.min

\* list.sort(key=...): stable, ascending
SortInsert(s, e, axis) ==
    LET k == Cardinality({i \in 1..Len(s) : RLe(AxisMin(s[i], axis), AxisMin(e, axis))})
    IN  SubSeq(s, 1, k) \o <<e>> \o SubSeq(s, k + 1, Len(s))

RECURSIVE SortFrom(_, _, _, _)
SortFrom(seq, i, acc, axis) ==
    IF i > Len(seq) THEN acc
    ELSE SortFrom(seq, i + 1, SortInsert(acc, seq[i], axis), axis)

ListSort(seq, axis) == SortFrom(seq, 1, <<>>, axis)

\* a sort that overwrites the list with its first element
BVHSortedAssetsOverwrites(asset_list, sort_assets, axis) ==
    IF Len(asset_list) > 2 /\ sort_assets
    THEN [i \in 1..Len(asset_list) |-> asset_list[1]]
    ELSE asset_list

\* asset_list after BVHNode.__init__ (the sort is in place)
BVHSortedAssets(asset_list, sort_assets, axis) ==
    IF Len(asset_list) > 2 /\ sort_assets THEN ListSort(asset_list, axis) ELSE asset_list

\* BVHNode(asset_list, sort_assets) when random.choice picks `axis`.  The
\* children are built with sort_assets=False, so their own choice is unused.
\* An empty list takes the else branch and recurses on [] for ever.
RECURSIVE BVHNode(_, _, _)
BVHNode(asset_list, sort_assets, axis) ==
    LET object_span == Len(asset_list)
    IN  IF object_span = 0 THEN [kind |-> "RecursionError"]
        ELSE IF object_span = 1 THEN
            [kind |-> "bvh", left |-> asset_list[1], right |-> asset_list[1],
             bbox |-> AABBFromBox(asset_list[1].bbox, asset_list[1].bbox)]
        ELSE IF object_span = 2 THEN
            [kind |-> "bvh", left |-> asset_list[1], right |-> asset_list[2],
             bbox |-> AABBFromBox(asset_list[1].bbox, asset_list[2].bbox)]
        ELSE LET sorted == BVHSortedAssets(asset_list, sort_assets, axis)
                 mid == object_span \div 2
                 left == BVHNode(SubSeq(sorted, 1, mid), FALSE, axis)
                 right == BVHNode(SubSeq(sorted, mid + 1, object_span), FALSE, axis)
             IN  [kind |-> "bvh", left |-> left, right |-> right,
                  bbox |-> AABBFromBox(left.bbox, right.bbox)]

\* the upper end of the interval BVHNode.hit searches the right child in
BVHRightMax(rt, hit_left, rec) == IF hit_left THEN rec.t ELSE rt.max

RECURSIVE Hit(_, _, _, _)
RECURSIVE BVHNodeHit(_, _, _, _)
BVHNodeHit(node, r, rt, rec) ==
    LET bh == AABBHit(node.bbox, r, rt)
    IN  IF bh = "ZeroDivisionError" THEN Outcome("ZeroDivisionError", FALSE, rec, rt)
        ELSE IF bh = "false" THEN Outcome("none", FALSE, rec, rt)
        ELSE LET l == Hit(node.left, r, rt, rec)
             IN  IF l.exc # "none" THEN l
                 ELSE LET rr == Hit(node.right, r,
                                    Interval(rt.min, BVHRightMax(rt, l.hit, l.rec)), l.rec)
                      IN  IF rr.exc # "none" THEN Outcome(rr.exc, FALSE, rr.rec, rt)
                          ELSE Outcome("none", l.hit \/ rr.hit, rr.rec, rt)

\* dynamic dispatch of asset.hit
Hit(obj, r, rt, rec) ==
    IF obj.kind = "sphere" THEN SphereHit(obj, r, rt, rec)
    ELSE IF obj.kind = "quad" THEN QuadHit(obj, r, rt, rec)
    ELSE BVHNodeHit(obj, r, rt, rec)

(***************************************************************************)
(* HittableList and Scene                                                  *)
(***************************************************************************)
NoBBox == [unset |-> TRUE]
NoBVH == [kind |-> "unset"]

\* the object after Hittable.__init__ and the first lines of HittableList.__init__
EmptyHittableList(use_bvh) ==
    [use_bvh |-> use_bvh, assets |-> <<>>, center |-> <<0, 0, 0>>,
     bbox |-> NoBBox, bvh |-> NoBVH]

\* an add_asset that keeps the bbox the list had
AddAssetKeepsBBox(hl, asset, suppress_bvh_updates, axis) ==
    LET first == Len(hl.assets) < 1
        appended == Append(hl.assets, asset)
        rebuild == hl.use_bvh /\ ~suppress_bvh_updates
    IN  [use_bvh |-> hl.use_bvh,
         center |-> IF first THEN asset.center ELSE hl.center,
         bbox |-> IF first THEN asset.bbox ELSE hl.bbox,
         assets |-> IF rebuild THEN BVHSortedAssets(appended, TRUE, axis) ELSE appended,
         bvh |-> IF rebuild THEN BVHNode(appended, TRUE, axis) ELSE hl.bvh]

\* HittableList.add_asset when random.choice (in BVHNode) picks `axis`
add_asset(hl, asset, suppress_bvh_updates, axis) ==
    LET first == Len(hl.assets) < 1
        box0 == IF first THEN asset.bbox ELSE hl.bbox
        appended == Append(hl.assets, asset)
        rebuild == hl.use_bvh /\ ~suppress_bvh_updates
    IN  [use_bvh |-> hl.use_bvh,
         center |-> IF first THEN asset.center ELSE hl.center,
         bbox |-> AABBFromBox(box0, asset.bbox),
         assets |-> IF rebuild THEN BVHSortedAssets(appended, TRUE, axis) ELSE appended,
         bvh |-> IF rebuild THEN BVHNode(appended, TRUE, axis) ELSE hl.bvh]

RECURSIVE AddAll(_, _, _)
AddAll(hl, objs, i) ==
    IF i > Len(objs) THEN hl
    ELSE AddAll(add_asset(hl, objs[i], TRUE, 1), objs, i + 1)

\* HittableList(objects, use_bvh=use_bvh) when random.choice picks `axis`
HittableList(objs, use_bvh, axis) ==
    LET filled == AddAll(EmptyHittableList(use_bvh), objs, 1)
    IN  IF use_bvh
        THEN [filled EXCEPT !.bvh = BVHNode(filled.assets, TRUE, axis),
                            !.assets = BVHSortedAssets(filled.assets, TRUE, axis)]
        ELSE filled

\* the for loop shared by Scene.hit and HittableList.hit, from index i on
RECURSIVE Sweep(_, _, _, _, _, _, _)
Sweep(assets, i, r, rt, temp_rec, rec, hit_anything) ==
    IF i > Len(assets) THEN Outcome("none", hit_anything, rec, rt)
    ELSE LET o == Hit(assets[i], r, rt, temp_rec)
         IN  IF o.exc # "none" THEN Outcome(o.exc, FALSE, rec, rt)
             ELSE IF o.hit
                  THEN Sweep(assets, i + 1, r, Interval(rt.min, o.rec.t), o.rec, o.rec, TRUE)
                  ELSE Sweep(assets, i + 1, r, rt, temp_rec, rec, hit_anything)

SceneHit(assets, r, rt, rec) == Sweep(assets, 1, r, rt, HitRecord, rec, FALSE)

\* HittableList.hit (use_bvh=False)
ListHit(hl, r, rt, rec) ==
    IF hl.bbox = NoBBox THEN Outcome("AttributeError", FALSE, rec, rt)
    ELSE LET bh == AABBHit(hl.bbox, r, rt)
         IN  IF bh = "ZeroDivisionError" THEN Outcome("ZeroDivisionError", FALSE, rec, rt)
             ELSE IF bh = "false" THEN Outcome("none", FALSE, rec, rt)
             ELSE Sweep(hl.assets, 1, r, rt, HitRecord, rec, FALSE)

\* HittableList._hit_bvh (use_bvh=True)
ListHitBVH(hl, r, rt, rec) ==
    IF hl.bvh.kind = "RecursionError" THEN Outcome("RecursionError", FALSE, rec, rt)
    ELSE BVHNodeHit(hl.bvh, r, rt, rec)

(***************************************************************************)
(* Intersection harness: the containers are built from `objects`, then     *)
(* each hit routine is called once with (ray, ray_t, rec0).                *)
(***************************************************************************)
Mats == {"matA", "matB", "matC"}

\* Along direction (1, 2, 2) from the origin sphereA has roots 2 and 4,
\* sphereB 2 and 6, quadA is crossed at 2 and quadB at 3; along (0, 0, 1)
\* sphereC has roots 4 and 6, quadA is crossed at 4 and quadB at 6.
sphereA == Sphere(<<3, 6, 6>>, 3, "matA")
sphereB == Sphere(<<4, 8, 8>>, 6, "matB")
sphereC == Sphere(<<0, 0, 5>>, 1, "matC")
quadA == Quad(<<0, 0, 4>>, <<4, 0, 0>>, <<0, 8, 0>>, "matA")
quadB == Quad(<<-1, -1, 6>>, <<4, 0, 0>>, <<0, 8, 0>>, "matB")

Pool == {sphereA, sphereB, sphereC, quadA, quadB}

Rays == {[origin |-> <<0, 0, 0>>, direction |-> <<1, 2, 2>>],
         [origin |-> <<0, 0, 0>>, direction |-> <<0, 0, 1>>]}

Intervals == {Interval(<<1, 1000>>, Inf), Interval(I2R(2), Inf), Interval(I2R(2), I2R(4))}

PrevRecord == [t |-> I2R(9), p |-> V2R(<<9, 9, 9>>), mat |-> "matP"]

ObjectLists == UNION {[1..n -> Pool] : n \in 1..MaxAssets}

\* every square root Sphere.hit takes on these inputs is exact
ExactInputs(objs, r) ==
    \A i \in 1..Len(objs) :
        objs[i].kind = "sphere" =>
            (SphereDiscriminant(objs[i], r) < 0 \/ IsSquare(SphereDiscriminant(objs[i], r)))

\* no HittableList or Scene is under test
HitIdle ==
    /\ objects = <<>>
    /\ ray = [origin |-> <<0, 0, 0>>, direction |-> <<0, 0, 0>>]
    /\ ray_t = Interval(NegInf, Inf)
    /\ rec0 = HitRecord
    /\ hl_plain = EmptyHittableList(FALSE)
    /\ hl_bvh = EmptyHittableList(TRUE)
    /\ scene_assets = <<>>
    /\ out_sphere = NotRun
    /\ out_plain = NotRun
    /\ out_bvh = NotRun
    /\ out_scene = NotRun
    /\ hpc = "idle"

\* no ray_color call is active
ColorIdle ==
    /\ limit = 0
    /\ cpc = "idle"
    /\ depth = 0
    /\ stack = <<>>
    /\ retval = 0
    /\ scatters = 0

\* no render is active
RenderIdle ==
    /\ img_width = 1
    /\ img_height = 1
    /\ samples = 1
    /\ mono_pc = "idle"
    /\ mono_file = <<>>
    /\ mpc = "idle"
    /\ block_list = <<>>
    /\ task = <<>>
    /\ output = <<>>
    /\ completion = <<>>
    /\ results = <<>>
    /\ im = <<>>
    /\ paste_log = <<>>
    /\ multi_file = <<>>

\* no mesh file is being loaded
ObjIdle ==
    /\ vertex_lines = <<>>
    /\ face_lines = <<>>
    /\ opc = "idle"
    /\ line_no = 1
    /\ vertices = <<>>
    /\ face_list = <<>>
    /\ obj_error = "none"
    /\ model = <<>>

\* no AABB is under test
BoxIdle ==
    /\ b_box0 = <<>>
    /\ b_box1 = <<>>
    /\ b_box2 = <<>>
    /\ b_ray = <<>>
    /\ b_ray_t = <<>>
    /\ b_hit = "notrun"
    /\ b_union = <<>>
    /\ bpc = "idle"

\* no primitive is under test
ShapeIdle ==
    /\ sh_kind = "none"
    /\ sh_at = <<>>
    /\ sh_size = 0
    /\ shape = <<>>
    /\ sh_ray = <<>>
    /\ sh_ray_t = <<>>
    /\ sh_out = NotRun
    /\ spc = "idle"

\* no list is being built
TreeIdle ==
    /\ t_objects = <<>>
    /\ t_use_bvh = FALSE
    /\ t_list = <<>>
    /\ t_added = 0
    /\ t_node = <<>>
    /\ t_axes = <<>>
    /\ t_given = <<>>
    /\ tpc = "idle"

\* no Camera is under test
CamIdle ==
    /\ cam_args = <<>>
    /\ cam_rounding = "exact"
    /\ cam = <<>>
    /\ cam_error = "none"
    /\ kpc = "idle"

GeomIdle == BoxIdle /\ ShapeIdle /\ TreeIdle /\ CamIdle

\* no Scene.ray_color call is under test
SceneIdle ==
    /\ s_skybox = <<>>
    /\ s_assets = <<>>
    /\ s_total = 0
    /\ s_added = 0
    /\ s_ray = <<>>
    /\ s_limit = 0
    /\ s_color = <<>>
    /\ s_mat_called = FALSE
    /\ scene_pc = "idle"

\* no texture lookup is under test
TextureIdle ==
    /\ tex_mode = "none"
    /\ tex_size = <<>>
    /\ tex_at = <<>>
    /\ tex_out = [exc |-> "notrun"]
    /\ tex_pc = "idle"

\* no Color.as_tuple call is under test
QuantIdle ==
    /\ q_samples = 1
    /\ q_pixel_color = <<>>
    /\ q_iter = 0
    /\ q_out = [exc |-> "notrun"]
    /\ quant_pc = "idle"

\* no Camera.get_ray call is under test
GetRayIdle ==
    /\ g_cam = <<>>
    /\ g_lens = <<>>
    /\ g_pixel = <<>>
    /\ g_offset = <<>>
    /\ g_disc = <<>>
    /\ g_ray = <<>>
    /\ getray_pc = "idle"

\* no Interval.expand call is under test
ExpandIdle ==
    /\ e_interval = <<>>
    /\ e_delta = <<>>
    /\ e_result = <<>>
    /\ e_receiver = <<>>
    /\ expand_pc = "idle"

\* no pixel loop is under test
CoverIdle ==
    /\ v_width = 1
    /\ v_height = 1
    /\ v_blocks = <<>>
    /\ v_rendered = {}
    /\ v_multi = <<>>
    /\ v_multi_out = {}
    /\ v_mono = <<>>
    /\ v_mono_out = {}
    /\ v_mono_done = FALSE
    /\ cover_pc = "idle"

\* no BVHNode of rtrace/hittable.py is under test
OldIdle ==
    /\ o_list = <<>>
    /\ o_axes = <<>>
    /\ o_node = <<>>
    /\ o_after = <<>>
    /\ old_pc = "idle"

\* no construction is traced call by call
BuildIdle ==
    /\ bd_entry = ""
    /\ bd_len = 0
    /\ bd_use_bvh = FALSE
    /\ bd_stack = <<>>
    /\ bd_calls = 0
    /\ build_pc = "idle"

UnitIdle ==
    /\ SceneIdle
    /\ TextureIdle
    /\ QuantIdle
    /\ GetRayIdle
    /\ ExpandIdle
    /\ CoverIdle
    /\ OldIdle
    /\ BuildIdle

HitInit ==
    /\ UnitIdle
    /\ GeomIdle
    /\ ColorIdle
    /\ RenderIdle
    /\ ObjIdle
    /\ objects \in ObjectLists
    /\ ray \in Rays
    /\ ExactInputs(objects, ray)
    /\ ray_t \in Intervals
    /\ rec0 \in {HitRecord, PrevRecord}
    /\ hl_plain = EmptyHittableList(FALSE)
    /\ hl_bvh = EmptyHittableList(TRUE)
    /\ scene_assets = <<>>
    /\ out_sphere = NotRun
    /\ out_plain = NotRun
    /\ out_bvh = NotRun
    /\ out_scene = NotRun
    /\ hpc = "new"

\* hl_plain = HittableList(objects)
NewPlainList ==
    /\ hpc = "new"
    /\ hl_plain' = HittableList(objects, FALSE, 1)
    /\ hpc' = "plain"
    /\ UNCHANGED <<objects, ray, ray_t, rec0, hl_bvh, scene_assets,
                   out_sphere, out_plain, out_bvh, out_scene>>
    /\ UNCHANGED <<colorVars, renderVars, objVars, boxVars, shapeVars, treeVars, camVars,
                   unitVars>>

\* hl_bvh = HittableList(objects, use_bvh=True)
NewBVHList ==
    /\ hpc = "plain"
    /\ \E axis \in 1..3 : hl_bvh' = HittableList(objects, TRUE, axis)
    /\ hpc' = "bvh"
    /\ UNCHANGED <<objects, ray, ray_t, rec0, hl_plain, scene_assets,
                   out_sphere, out_plain, out_bvh, out_scene>>
    /\ UNCHANGED <<colorVars, renderVars, objVars, boxVars, shapeVars, treeVars, camVars,
                   unitVars>>

\* Scene(objects): add_asset appends each asset
NewScene ==
    /\ hpc = "bvh"
    /\ scene_assets' = objects
    /\ hpc' = "built"
    /\ UNCHANGED <<objects, ray, ray_t, rec0, hl_plain, hl_bvh,
                   out_sphere, out_plain, out_bvh, out_scene>>
    /\ UNCHANGED <<colorVars, renderVars, objVars, boxVars, shapeVars, treeVars, camVars,
                   unitVars>>

\* objects[0].hit(ray, ray_t, rec0) for a Sphere
CallSphereHit ==
    /\ hpc = "built"
    /\ objects[1].kind = "sphere"
    /\ out_sphere = NotRun
    /\ out_sphere' = SphereHit(objects[1], ray, ray_t, rec0)
    /\ UNCHANGED <<objects, ray, ray_t, rec0, hl_plain, hl_bvh, scene_assets,
                   out_plain, out_bvh, out_scene, hpc>>
    /\ UNCHANGED <<colorVars, renderVars, objVars, boxVars, shapeVars, treeVars, camVars,
                   unitVars>>

\* hl_plain.hit(ray, ray_t, rec0)
CallListHit ==
    /\ hpc = "built"
    /\ out_plain' = ListHit(hl_plain, ray, ray_t, rec0)
    /\ hpc' = "hit1"
    /\ UNCHANGED <<objects, ray, ray_t, rec0, hl_plain, hl_bvh, scene_assets,
                   out_sphere, out_bvh, out_scene>>
    /\ UNCHANGED <<colorVars, renderVars, objVars, boxVars, shapeVars, treeVars, camVars,
                   unitVars>>

\* hl_bvh.hit(ray, ray_t, rec0)
CallBVHHit ==
    /\ hpc = "hit1"
    /\ out_bvh' = ListHitBVH(hl_bvh, ray, ray_t, rec0)
    /\ hpc' = "hit2"
    /\ UNCHANGED <<objects, ray, ray_t, rec0, hl_plain, hl_bvh, scene_assets,
                   out_sphere, out_plain, out_scene>>
    /\ UNCHANGED <<colorVars, renderVars, objVars, boxVars, shapeVars, treeVars, camVars,
                   unitVars>>

\* scene.hit(ray, ray_t, rec0)
CallSceneHit ==
    /\ hpc = "hit2"
    /\ out_scene' = SceneHit(scene_assets, ray, ray_t, rec0)
    /\ hpc' = "done"
    /\ UNCHANGED <<objects, ray, ray_t, rec0, hl_plain, hl_bvh, scene_assets,
                   out_sphere, out_plain, out_bvh>>
    /\ UNCHANGED <<colorVars, renderVars, objVars, boxVars, shapeVars, treeVars, camVars,
                   unitVars>>

HitNext ==
    \/ NewPlainList
    \/ NewBVHList
    \/ NewScene
    \/ CallSphereHit
    \/ CallListHit
    \/ CallBVHHit
    \/ CallSceneHit

SpecHit == HitInit /\ [][HitNext]_vars

(***************************************************************************)
(* Claims about the intersection routines                                  *)
(***************************************************************************)
VScale(k, a) == <<k * a[1], k * a[2], k * a[3]>>
Norm1(a) == Abs(a[1]) + Abs(a[2]) + Abs(a[3])

\* origin + (n / a) * direction lies on the sphere, a = |direction|^2:
\* |a (origin - center) + n direction|^2 = (a radius)^2
OnSphere(s, r, n) ==
    LET a == length_squared(r.direction)
    IN  length_squared(VAdd(VScale(a, VSub(r.origin, s.center)), VScale(n, r.direction)))
            = a * a * s.radius * s.radius

\* the parameters t at which the ray meets the sphere (the roots of the
\* intersection quadratic); a root n / a has |n| <= a (|origin - center| + radius)
SphereRoots(s, r) ==
    LET a == length_squared(r.direction)
        bound == a * (Norm1(VSub(r.origin, s.center)) + Abs(s.radius))
    IN  {Rat(n, a) : n \in {m \in (-bound)..bound : OnSphere(s, r, m)}}

RootsInside(s, r, rt) == {x \in SphereRoots(s, r) : RLt(rt.min, x) /\ RLt(x, rt.max)}

\* C7: when the discriminant is non-negative, Sphere.hit records the smallest
\* root of the intersection quadratic that lies strictly inside the search
\* interval, and returns False with the record untouched when no root does.
C7_SmallestRootInside ==
    (out_sphere # NotRun /\ SphereDiscriminant(objects[1], ray) >= 0) =>
        LET valid == RootsInside(objects[1], ray, ray_t)
        IN  /\ out_sphere.exc = "none"
            /\ (valid = {} => (~out_sphere.hit /\ out_sphere.rec = rec0))
            /\ (valid # {} => /\ out_sphere.hit
                              /\ out_sphere.rec.t \in valid
                              /\ \A x \in valid : RLe(out_sphere.rec.t, x))

\* the smaller root is outside the interval and the larger one is recorded
C7_Witness ==
    /\ out_sphere # NotRun
    /\ out_sphere.hit
    /\ Cardinality(SphereRoots(objects[1], ray)) = 2
    /\ \E x \in SphereRoots(objects[1], ray) : RLt(x, out_sphere.rec.t)

\* C1 (as claimed): the list built with use_bvh=True and the list built with
\* use_bvh=False give the same answer and, on a hit, the same record.
C1_SameClosestHit ==
    (out_plain # NotRun /\ out_bvh # NotRun) =>
        /\ out_plain.exc = out_bvh.exc
        /\ out_plain.hit = out_bvh.hit
        /\ (out_plain.hit => out_plain.rec = out_bvh.rec)

\* the assets that report a hit inside the interval when asked on their own
Reporting(assets, r, rt) ==
    {i \in 1..Len(assets) : Hit(assets[i], r, rt, HitRecord).hit}

ClosestOfAll(out, assets, r, rt, rec) ==
    LET rep == Reporting(assets, r, rt)
    IN  /\ out.exc = "none"
        /\ out.hit <=> (rep # {})
        /\ out.hit => \E i \in rep :
                          /\ out.rec = Hit(assets[i], r, rt, HitRecord).rec
                          /\ \A j \in rep : RLe(out.rec.t, Hit(assets[j], r, rt, HitRecord).rec.t)
        /\ ~out.hit => out.rec = rec

SceneHitClosest == out_scene # NotRun => ClosestOfAll(out_scene, objects, ray, ray_t, rec0)
ListHitClosest == out_plain # NotRun => ClosestOfAll(out_plain, objects, ray, ray_t, rec0)

\* C8 (as claimed): Scene.hit and HittableList.hit return true iff some asset
\* reports a hit inside the interval, leave the record of a hit of minimum t,
\* and leave the caller's record alone on a miss.
C8_ClosestHitAnyOrder == SceneHitClosest /\ ListHitClosest

(***************************************************************************)
(* Scene.ray_color and Scene.r_ray_color                                   *)
(*                                                                         *)
(* A Color is modelled by one integer channel (Black = 0).  What a ray     *)
(* hits depends on the scene, so each hit test draws its outcome: a miss   *)
(* (the skybox colours the ray), or a hit on a material whose scatter      *)
(* returns False (it only emits) or True (it attenuates the scattered      *)
(* ray).  The call stack is explicit: a frame is pushed when a body makes  *)
(* its recursive call and popped when that call returns.                   *)
(***************************************************************************)
MaxLimit == 3

Black == 0

\* skybox.get_color(r)
SkyColors == {1, 2}

\* what rec.mat.emitted and rec.mat.scatter give at a hit: Material and
\* DiffuseLight never scatter, Lambertian and Dielectric always do, Metal
\* does when the reflected ray leaves the surface
HitMaterials ==
    {[scatter |-> FALSE, attenuation |-> Black, from_emission |-> Black],
     [scatter |-> FALSE, attenuation |-> Black, from_emission |-> 2],
     [scatter |-> TRUE, attenuation |-> 1, from_emission |-> Black],
     [scatter |-> TRUE, attenuation |-> 2, from_emission |-> Black]}

\* the depth r_ray_color hands to its recursive call
NextDepthStuck(d) == d

NextDepth(d) == d + 1

\* the test at the head of r_ray_color
LimitReached(lim, d) == lim < d

\* from_scatter + from_emission
Shade(frame, color) == (frame.attenuation * color) + frame.from_emission

ColorInit ==
    /\ UnitIdle
    /\ GeomIdle
    /\ HitIdle
    /\ RenderIdle
    /\ ObjIdle
    /\ limit \in 0..MaxLimit
    /\ cpc = "ray_color"
    /\ depth = 0
    /\ stack = <<>>
    /\ retval = Black
    /\ scatters = 0

\* ray_color: the ray hits nothing
RayColorMiss ==
    /\ cpc = "ray_color"
    /\ \E sky \in SkyColors : retval' = sky
    /\ cpc' = "done"
    /\ UNCHANGED <<limit, depth, stack, scatters>>
    /\ UNCHANGED <<hitVars, renderVars, objVars, boxVars, shapeVars, treeVars, camVars,
                   unitVars>>

\* ray_color: the material hit does not scatter
RayColorEmit ==
    /\ cpc = "ray_color"
    /\ \E m \in HitMaterials : ~m.scatter /\ retval' = m.from_emission
    /\ cpc' = "done"
    /\ UNCHANGED <<limit, depth, stack, scatters>>
    /\ UNCHANGED <<hitVars, renderVars, objVars, boxVars, shapeVars, treeVars, camVars,
                   unitVars>>

\* ray_color: the material scatters; r_ray_color(scattered, rec, limit) is called
RayColorScatter ==
    /\ cpc = "ray_color"
    /\ \E m \in HitMaterials :
          /\ m.scatter
          /\ stack' = <<[attenuation |-> m.attenuation, from_emission |-> m.from_emission]>>
    /\ depth' = 0
    /\ scatters' = scatters + 1
    /\ cpc' = "r_ray_color"
    /\ UNCHANGED <<limit, retval>>
    /\ UNCHANGED <<hitVars, renderVars, objVars, boxVars, shapeVars, treeVars, camVars,
                   unitVars>>

\* r_ray_color: limit < depth, return Color(0, 0, 0)
RRayColorLimit ==
    /\ cpc = "r_ray_color"
    /\ LimitReached(limit, depth)
    /\ retval' = Black
    /\ cpc' = "return"
    /\ UNCHANGED <<limit, depth, stack, scatters>>
    /\ UNCHANGED <<hitVars, renderVars, objVars, boxVars, shapeVars, treeVars, camVars,
                   unitVars>>

\* r_ray_color: the ray hits nothing
RRayColorMiss ==
    /\ cpc = "r_ray_color"
    /\ ~LimitReached(limit, depth)
    /\ \E sky \in SkyColors : retval' = sky
    /\ cpc' = "return"
    /\ UNCHANGED <<limit, depth, stack, scatters>>
    /\ UNCHANGED <<hitVars, renderVars, objVars, boxVars, shapeVars, treeVars, camVars,
                   unitVars>>

\* r_ray_color: the material hit does not scatter
RRayColorEmit ==
    /\ cpc = "r_ray_color"
    /\ ~LimitReached(limit, depth)
    /\ \E m \in HitMaterials : ~m.scatter /\ retval' = m.from_emission
    /\ cpc' = "return"
    /\ UNCHANGED <<limit, depth, stack, scatters>>
    /\ UNCHANGED <<hitVars, renderVars, objVars, boxVars, shapeVars, treeVars, camVars,
                   unitVars>>

\* r_ray_color: the material scatters; r_ray_color(scattered, rec, limit, depth + 1)
RRayColorScatter ==
    /\ cpc = "r_ray_color"
    /\ ~LimitReached(limit, depth)
    /\ \E m \in HitMaterials :
          /\ m.scatter
          /\ stack' = Append(stack, [attenuation |-> m.attenuation,
                                     from_emission |-> m.from_emission])
    /\ depth' = NextDepth(depth)
    /\ scatters' = scatters + 1
    /\ UNCHANGED <<limit, cpc, retval>>
    /\ UNCHANGED <<hitVars, renderVars, objVars, boxVars, shapeVars, treeVars, camVars,
                   unitVars>>

\* a recursive call returns into the frame that made it, which returns
\* from_scatter + from_emission; the frame at the bottom is ray_color's
ReturnToCaller ==
    /\ cpc = "return"
    /\ stack # <<>>
    /\ retval' = Shade(stack[Len(stack)], retval)
    /\ stack' = SubSeq(stack, 1, Len(stack) - 1)
    /\ depth' = IF Len(stack) > 1 THEN Len(stack) - 2 ELSE 0
    /\ cpc' = IF Len(stack) > 1 THEN "return" ELSE "done"
    /\ UNCHANGED <<limit, scatters>>
    /\ UNCHANGED <<hitVars, renderVars, objVars, boxVars, shapeVars, treeVars, camVars,
                   unitVars>>

ColorNext ==
    \/ RayColorScatter
    \/ RayColorMiss
    \/ RayColorEmit
    \/ RRayColorLimit
    \/ RRayColorMiss
    \/ RRayColorEmit
    \/ RRayColorScatter
    \/ ReturnToCaller

SpecColor == ColorInit /\ [][ColorNext]_vars

\* the interpreter always runs the next statement of the active call
FairSpecColor == SpecColor /\ WF_vars(ColorNext)

\* C2 (as claimed): a light path scatters at most `limit` times, and
\* ray_color(ray, 0) returns black.
C2_AtMostLimitScatters ==
    /\ scatters <= limit
    /\ (cpc = "done" /\ limit = 0) => retval = Black

\* C3: ray_color terminates for every limit: each recursive call is made with
\* the depth one higher, no more than limit + 2 calls of r_ray_color are ever
\* nested, and the call returns.
C3_Terminates ==
    /\ [](Len(stack) <= limit + 2 /\ depth <= limit + 1)
    /\ [][Len(stack') > Len(stack) /\ cpc = "r_ray_color" => depth' = depth + 1]_vars
    /\ <>(cpc = "done")

\* every material hit scattered until the limit stopped the recursion, and
\* the call returned
C3_Witness == cpc = "done" /\ scatters = limit + 2

(***************************************************************************)
(* Camera.render_mono, Camera.render_multi and Camera._render_block        *)
(*                                                                         *)
(* A pixel colour is the average of scene.ray_color over the rays of       *)
(* get_ray(i, j, 0), ..., get_ray(i, j, samples - 1); with deterministic   *)
(* offsets it is a function of that sequence of calls, so a pixel is       *)
(* modelled by the sequence of the (i, j, iter) its rays were asked for.   *)
(* An image is a function from the pixels (x, y) to their values; a pixel  *)
(* never written keeps the (0, 0, 0) of Image.new.  No filter is given.    *)
(* pool.starmap runs the tasks in any order, returns their results in      *)
(* dispatch order once all of them have finished, and raises instead if    *)
(* one of them raised (one task per chunk).                                *)
(***************************************************************************)
_MULTIPROCESS_BLOCK_SIZE == 16

MaxDim == 17
MaxSamples == 2

Dims == {1, _MULTIPROCESS_BLOCK_SIZE - 1} \cup (_MULTIPROCESS_BLOCK_SIZE .. MaxDim)

Min2(a, b) == IF a < b THEN a ELSE b
SetMax(S) == CHOOSE m \in S : \A x \in S : x <= m
CeilDiv(a, b) == (a + b - 1) \div b

BlackPixel == <<>>
Pixels(w, h) == (0 .. (w - 1)) \X (0 .. (h - 1))

\* Image.new("RGB", (w, h), (0, 0, 0))
NewImage(w, h) == [p \in Pixels(w, h) |-> BlackPixel]

\* the pixel written for (i, j): the rays gr(i, j, iter) for iter in range(samples)
PixelColor(i, j, n) == [k \in 1..n |-> <<i, j, k - 1>>]

\* im.putpixel(coord[i], val[i]) for i = 0, 1, ... on a new w x h image;
\* <<>> when a coordinate is outside the image (putpixel raises IndexError)
PutPixels(w, h, coord, val) ==
    IF \E i \in DOMAIN coord : coord[i] \notin Pixels(w, h) THEN <<>>
    ELSE [p \in Pixels(w, h) |->
            LET writers == {i \in DOMAIN coord : coord[i] = p}
            IN  IF writers = {} THEN BlackPixel ELSE val[SetMax(writers)]]

\* a render_mono whose local `height` is the image height
MonoLocalHeightIsHeight(w, h) == h

\* the local `height` of render_mono: width, height = self.img_width, self.img_width
MonoLocalHeight(w, h) == w

\* the image render_mono computes
MonoImage(w, h, n) ==
    LET width == w
        height == MonoLocalHeight(w, h)
        coord == [i \in 0 .. (w * h - 1) |-> <<i % width, i \div height>>]
        val == [i \in 0 .. (w * h - 1) |-> PixelColor(coord[i][1], coord[i][2], n)]
    IN  PutPixels(w, h, coord, val)

\* block_args(): the (range_x, range_y) of the blocks, rows of blocks first
BlockArgs(w, h) ==
    LET nx == CeilDiv(w, _MULTIPROCESS_BLOCK_SIZE)
        ny == CeilDiv(h, _MULTIPROCESS_BLOCK_SIZE)
    IN  [k \in 1 .. (nx * ny) |->
            LET blc_x == (k - 1) % nx
                blc_y == (k - 1) \div nx
            IN  [range_x |-> <<blc_x * _MULTIPROCESS_BLOCK_SIZE,
                               Min2((blc_x + 1) * _MULTIPROCESS_BLOCK_SIZE, w)>>,
                 range_y |-> <<blc_y * _MULTIPROCESS_BLOCK_SIZE,
                               Min2((blc_y + 1) * _MULTIPROCESS_BLOCK_SIZE, h)>>]]

\* a _render_block that returns its offset with the axes swapped
BlockPosSwapped(range_x, range_y) == <<range_y[1], range_x[1]>>

\* the position _render_block returns with its image: (range_x[0], range_y[0])
BlockPos(range_x, range_y) == <<range_x[1], range_y[1]>>

\* the image _render_block computes: i -> (i % block_width, i // block_width)
\* visits every pixel of the block once, and pixel (x, y) of the block gets
\* the colour of the image pixel (x + range_x[0], y + range_y[0])
BlockImage(range_x, range_y, n) ==
    LET block_width == range_x[2] - range_x[1]
        block_height == range_y[2] - range_y[1]
    IN  [p \in Pixels(block_width, block_height) |->
            PixelColor(p[1] + range_x[1], p[2] + range_y[1], n)]

\* im.paste(img_block, pos)
Paste(canvas, img_block, pos) ==
    [p \in DOMAIN canvas |->
        IF <<p[1] - pos[1], p[2] - pos[2]>> \in DOMAIN img_block
        THEN img_block[<<p[1] - pos[1], p[2] - pos[2]>>]
        ELSE canvas[p]]

\* a starmap that swallows the exception of a task
StarmapNeverRaises(tasks) == FALSE

\* pool.starmap raises when a task raised
StarmapRaises(tasks) == \E k \in DOMAIN tasks : tasks[k] = "failed"

AllFinished(tasks) == \A k \in DOMAIN tasks : tasks[k] # "running"

RenderInit ==
    /\ UnitIdle
    /\ GeomIdle
    /\ HitIdle
    /\ ColorIdle
    /\ ObjIdle
    /\ img_width \in Dims
    /\ img_height \in Dims
    /\ samples \in 1..MaxSamples
    /\ mono_pc = "start"
    /\ mono_file = <<>>
    /\ mpc = "start"
    /\ block_list = <<>>
    /\ task = <<>>
    /\ output = <<>>
    /\ completion = <<>>
    /\ results = <<>>
    /\ im = <<>>
    /\ paste_log = <<>>
    /\ multi_file = <<>>

\* Camera.render_mono(scene, fp)
RenderMono ==
    /\ mono_pc = "start"
    /\ LET img == MonoImage(img_width, img_height, samples)
       IN  IF img = <<>>
           THEN mono_pc' = "raised" /\ mono_file' = <<>>
           ELSE mono_pc' = "saved" /\ mono_file' = img
    /\ UNCHANGED <<img_width, img_height, samples, mpc, block_list, task, output,
                   completion, results, im, paste_log, multi_file>>
    /\ UNCHANGED <<hitVars, colorVars, objVars, boxVars, shapeVars, treeVars, camVars,
                   unitVars>>

\* Camera.render_multi up to pool.starmap, called once render_mono is over:
\* the canvas is created and every block is handed to the pool
Dispatch ==
    /\ mono_pc # "start"
    /\ mpc = "start"
    /\ im' = NewImage(img_width, img_height)
    /\ block_list' = BlockArgs(img_width, img_height)
    /\ task' = [k \in DOMAIN BlockArgs(img_width, img_height) |-> "running"]
    /\ output' = [k \in DOMAIN BlockArgs(img_width, img_height) |-> <<>>]
    /\ mpc' = "pool"
    /\ UNCHANGED <<img_width, img_height, samples, mono_pc, mono_file, completion,
                   results, paste_log, multi_file>>
    /\ UNCHANGED <<hitVars, colorVars, objVars, boxVars, shapeVars, treeVars, camVars,
                   unitVars>>

\* a worker finishes _render_block for block k
BlockDone(k) ==
    /\ mpc = "pool"
    /\ task[k] = "running"
    /\ task' = [task EXCEPT ![k] = "done"]
    /\ output' = [output EXCEPT ![k] =
                     [pos |-> BlockPos(block_list[k].range_x, block_list[k].range_y),
                      img |-> BlockImage(block_list[k].range_x, block_list[k].range_y, samples),
                      block |-> k]]
    /\ completion' = Append(completion, k)
    /\ UNCHANGED <<img_width, img_height, samples, mono_pc, mono_file, mpc, block_list,
                   results, im, paste_log, multi_file>>
    /\ UNCHANGED <<hitVars, colorVars, objVars, boxVars, shapeVars, treeVars, camVars,
                   unitVars>>

\* _render_block raises in the worker that renders block k
BlockRaise(k) ==
    /\ mpc = "pool"
    /\ task[k] = "running"
    /\ task' = [task EXCEPT ![k] = "failed"]
    /\ completion' = Append(completion, k)
    /\ UNCHANGED <<img_width, img_height, samples, mono_pc, mono_file, mpc, block_list,
                   output, results, im, paste_log, multi_file>>
    /\ UNCHANGED <<hitVars, colorVars, objVars, boxVars, shapeVars, treeVars, camVars,
                   unitVars>>

\* pool.starmap returns the list of the results, in dispatch order
StarmapReturn ==
    /\ mpc = "pool"
    /\ AllFinished(task)
    /\ ~StarmapRaises(task)
    /\ results' = SelectSeq(output, LAMBDA o : o # <<>>)
    /\ mpc' = "paste"
    /\ UNCHANGED <<img_width, img_height, samples, mono_pc, mono_file, block_list, task,
                   output, completion, im, paste_log, multi_file>>
    /\ UNCHANGED <<hitVars, colorVars, objVars, boxVars, shapeVars, treeVars, camVars,
                   unitVars>>

\* pool.starmap re-raises the exception of a task; render_multi is left
StarmapRaise ==
    /\ mpc = "pool"
    /\ AllFinished(task)
    /\ StarmapRaises(task)
    /\ mpc' = "raised"
    /\ UNCHANGED <<img_width, img_height, samples, mono_pc, mono_file, block_list, task,
                   output, completion, results, im, paste_log, multi_file>>
    /\ UNCHANGED <<hitVars, colorVars, objVars, boxVars, shapeVars, treeVars, camVars,
                   unitVars>>

\* one pass of the loop over the results: im.paste(img_block, pos)
PasteBlock ==
    /\ mpc = "paste"
    /\ Len(paste_log) < Len(results)
    /\ LET r == results[Len(paste_log) + 1]
       IN  /\ im' = Paste(im, r.img, r.pos)
           /\ paste_log' = Append(paste_log, [pos |-> r.pos, block |-> r.block])
    /\ UNCHANGED <<img_width, img_height, samples, mono_pc, mono_file, mpc, block_list,
                   task, output, completion, results, multi_file>>
    /\ UNCHANGED <<hitVars, colorVars, objVars, boxVars, shapeVars, treeVars, camVars,
                   unitVars>>

\* im.save(fp)
SaveImage ==
    /\ mpc = "paste"
    /\ Len(paste_log) = Len(results)
    /\ multi_file' = im
    /\ mpc' = "saved"
    /\ UNCHANGED <<img_width, img_height, samples, mono_pc, mono_file, block_list, task,
                   output, completion, results, im, paste_log>>
    /\ UNCHANGED <<hitVars, colorVars, objVars, boxVars, shapeVars, treeVars, camVars,
                   unitVars>>

RenderNext ==
    \/ RenderMono
    \/ Dispatch
    \/ \E k \in DOMAIN task : BlockDone(k)
    \/ \E k \in DOMAIN task : BlockRaise(k)
    \/ StarmapReturn
    \/ StarmapRaise
    \/ PasteBlock
    \/ SaveImage

SpecRender == RenderInit /\ [][RenderNext]_vars

\* the image in which every pixel (x, y) is computed from get_ray(x, y, 0..samples-1)
ExpectedImage == [p \in Pixels(img_width, img_height) |-> PixelColor(p[1], p[2], samples)]

\* C4: render_mono and render_multi compute every pixel from the same
\* sequence of get_ray calls and save the same image, for every image size.
C4_MonoEqualsMulti ==
    mpc = "saved" =>
        /\ mono_pc = "saved"
        /\ mono_file = multi_file
        /\ mono_file = ExpectedImage

\* both modes saved an image that is not square and has partial blocks
C4_Witness ==
    /\ mono_pc = "saved"
    /\ mpc = "saved"
    /\ img_width # img_height
    /\ img_width % _MULTIPROCESS_BLOCK_SIZE # 0
    /\ Len(block_list) > 1

IsAscending(seq) == \A i \in 1 .. (Len(seq) - 1) : seq[i] < seq[i + 1]

\* C5: whatever the order in which the blocks complete, every block image is
\* pasted at the (x0, y0) of the range dispatched to produce it, and the image
\* saved is the same.
C5_PasteAtOwnOffset ==
    /\ \A i \in DOMAIN paste_log :
          paste_log[i].pos = <<block_list[paste_log[i].block].range_x[1],
                               block_list[paste_log[i].block].range_y[1]>>
    /\ mpc = "saved" => multi_file = ExpectedImage

\* the image was saved after the blocks completed out of dispatch order
C5_Witness ==
    /\ mpc = "saved"
    /\ Len(completion) = 4
    /\ ~IsAscending(completion)

\* C6: when a _render_block task raises, render_multi raises and no file is
\* written; a file is written only after every block completed and was pasted.
C6_NoFileAfterFailure ==
    /\ multi_file # <<>> =>
          /\ \A k \in DOMAIN task : task[k] = "done"
          /\ Len(paste_log) = Len(block_list)
    /\ (\E k \in DOMAIN task : task[k] = "failed") =>
          /\ multi_file = <<>>
          /\ mpc \in {"pool", "raised"}
          /\ paste_log = <<>>

\* a task raised while others completed; render_multi raised and saved nothing
C6_Witness ==
    /\ mpc = "raised"
    /\ \E k \in DOMAIN task : task[k] = "done"
    /\ multi_file = <<>>

(***************************************************************************)
(* Model.from_obj                                                          *)
(*                                                                         *)
(* The file is its two blocks of lines, split at the first empty line.  A  *)
(* line is modelled by its tag (its first field) and by the number of      *)
(* fields line.split(" ") gives; the fields after the tag are valid        *)
(* numbers, and every face line names vertex 1, so float(), int() and the  *)
(* lookup in `vertices` do not fail.  A vertex is identified by the number *)
(* of the line it was read from, a Triangle by its three vertices.         *)
(***************************************************************************)
MaxLines == 2
MaxFields == 5

Tags == {"v", "f"}
FieldCounts == 3..MaxFields
Lines == [tag : Tags, n : FieldCounts]
Blocks == UNION {[1..k -> Lines] : k \in 1..MaxLines}

\* if not (len(triplet) == 4 or triplet[0] == tag): raise ValueError(...)
LineRejected(line, tag) == ~(line.n = 4 \/ line.tag = tag)

\* triplet[1], triplet[2], triplet[3] exist
HasThreeValues(line) == line.n >= 4

CorruptedObjFile == "ValueError: Corrupted obj file"
ListIndexOutOfRange == "IndexError: list index out of range"

\* Triangle([vertices[x], vertices[y], vertices[z]], mat) of a face line "f 1 1 1 ..."
Triangle(vs) == <<vs[1], vs[1], vs[1]>>

ObjInit ==
    /\ UnitIdle
    /\ GeomIdle
    /\ HitIdle
    /\ ColorIdle
    /\ RenderIdle
    /\ vertex_lines \in Blocks
    /\ face_lines \in Blocks
    /\ opc = "vertices"
    /\ line_no = 1
    /\ vertices = <<>>
    /\ face_list = <<>>
    /\ obj_error = "none"
    /\ model = <<>>

\* one pass of the loop over vertex_str.split("\n")
ReadVertexLine ==
    /\ opc = "vertices"
    /\ LET triplet == vertex_lines[line_no]
       IN  IF LineRejected(triplet, "v")
           THEN /\ opc' = "raised"
                /\ obj_error' = CorruptedObjFile
                /\ UNCHANGED <<line_no, vertices>>
           ELSE IF ~HasThreeValues(triplet)
           THEN /\ opc' = "raised"
                /\ obj_error' = ListIndexOutOfRange
                /\ UNCHANGED <<line_no, vertices>>
           ELSE /\ vertices' = Append(vertices, line_no)
                /\ IF line_no = Len(vertex_lines)
                   THEN opc' = "faces" /\ line_no' = 1
                   ELSE opc' = opc /\ line_no' = line_no + 1
                /\ UNCHANGED obj_error
    /\ UNCHANGED <<vertex_lines, face_lines, face_list, model>>
    /\ UNCHANGED <<hitVars, colorVars, renderVars, boxVars, shapeVars, treeVars, camVars,
                   unitVars>>

\* one pass of the loop over faces_str.split("\n")
ReadFaceLine ==
    /\ opc = "faces"
    /\ LET face_triplet == face_lines[line_no]
       IN  IF LineRejected(face_triplet, "f")
           THEN /\ opc' = "raised"
                /\ obj_error' = CorruptedObjFile
                /\ UNCHANGED <<line_no, face_list>>
           ELSE IF ~HasThreeValues(face_triplet)
           THEN /\ opc' = "raised"
                /\ obj_error' = ListIndexOutOfRange
                /\ UNCHANGED <<line_no, face_list>>
           ELSE /\ face_list' = Append(face_list, Triangle(vertices))
                /\ IF line_no = Len(face_lines)
                   THEN opc' = "construct" /\ line_no' = line_no
                   ELSE opc' = opc /\ line_no' = line_no + 1
                /\ UNCHANGED obj_error
    /\ UNCHANGED <<vertex_lines, face_lines, vertices, model>>
    /\ UNCHANGED <<hitVars, colorVars, renderVars, boxVars, shapeVars, treeVars, camVars,
                   unitVars>>

\* return cls(face_list, mat)
ReturnModel ==
    /\ opc = "construct"
    /\ model' = face_list
    /\ opc' = "returned"
    /\ UNCHANGED <<vertex_lines, face_lines, line_no, vertices, face_list, obj_error>>
    /\ UNCHANGED <<hitVars, colorVars, renderVars, boxVars, shapeVars, treeVars, camVars,
                   unitVars>>

ObjNext ==
    \/ ReadVertexLine
    \/ ReadFaceLine
    \/ ReturnModel

SpecObj == ObjInit /\ [][ObjNext]_vars

\* a line that does not have exactly 4 fields
Malformed(line) == line.n # 4

HasMalformedLine ==
    \/ \E i \in DOMAIN vertex_lines : Malformed(vertex_lines[i])
    \/ \E i \in DOMAIN face_lines : Malformed(face_lines[i])

\* C9: a vertex or face line without exactly 4 fields makes from_obj raise
\* ValueError 'Corrupted obj file', whatever its tag: no such line is
\* accepted, and none fails with another error.
C9_FormatErrorForEveryBadLine ==
    /\ opc = "returned" => ~HasMalformedLine
    /\ opc = "raised" => obj_error = CorruptedObjFile

\* C10: when from_obj fails, no Triangle has been constructed; and a file
\* with a malformed line gives no Model.
C10_FailsBeforeAnyTriangle ==
    /\ opc = "raised" => face_list = <<>>
    /\ HasMalformedLine => model = <<>>

(***************************************************************************)
(* AABB.hit and AABB.from_box on their own: one call of b_box0.hit(b_ray,  *)
(* b_ray_t), then the unions of the three boxes in both orders and both    *)
(* groupings.                                                              *)
(***************************************************************************)
BoxCorners == { << <<-1, -1, -1>>, <<1, 1, 1>> >>,
                << <<2, 2, 2>>, <<1, 1, 1>> >>,
                << <<0, 0, 4>>, <<4, 8, 4>> >>,
                << <<-3, 2, -6>>, <<3, 6, 6>> >> }

\* Interval(): the default ends are -inf and inf
UniverseBox == AABB(Interval(NegInf, Inf), Interval(NegInf, Inf), Interval(NegInf, Inf))

Boxes == {AABBFromPoints(c[1], c[2]) : c \in BoxCorners} \cup {UniverseBox}

BoxRays == [origin : {<<0, 0, 0>>, <<0, 0, -5>>},
            direction : {<<1, 1, 1>>, <<-1, -1, -1>>, <<1, 2, 2>>, <<0, 0, 1>>, <<1, 0, 0>>}]

BoxIntervals == {Interval(<<1, 1000>>, Inf), Interval(I2R(2), I2R(4))}

BoxInit ==
    /\ UnitIdle
    /\ HitIdle
    /\ ColorIdle
    /\ RenderIdle
    /\ ObjIdle
    /\ ShapeIdle
    /\ TreeIdle
    /\ CamIdle
    /\ b_box0 \in Boxes
    /\ b_box1 \in Boxes
    /\ b_box2 \in Boxes
    /\ b_ray \in BoxRays
    /\ b_ray_t \in BoxIntervals
    /\ b_hit = "notrun"
    /\ b_union = <<>>
    /\ bpc = "hit"

\* b_box0.hit(b_ray, b_ray_t)
CallAABBHit ==
    /\ bpc = "hit"
    /\ b_hit' = AABBHit(b_box0, b_ray, b_ray_t)
    /\ bpc' = "union"
    /\ UNCHANGED <<b_box0, b_box1, b_box2, b_ray, b_ray_t, b_union>>
    /\ UNCHANGED <<hitVars, colorVars, renderVars, objVars, shapeVars, treeVars, camVars,
                   unitVars>>

\* AABB.from_box on the three boxes
CallFromBox ==
    /\ bpc = "union"
    /\ b_union' = [ab |-> AABBFromBox(b_box0, b_box1),
                   ba |-> AABBFromBox(b_box1, b_box0),
                   ab_c |-> AABBFromBox(AABBFromBox(b_box0, b_box1), b_box2),
                   a_bc |-> AABBFromBox(b_box0, AABBFromBox(b_box1, b_box2))]
    /\ bpc' = "done"
    /\ UNCHANGED <<b_box0, b_box1, b_box2, b_ray, b_ray_t, b_hit>>
    /\ UNCHANGED <<hitVars, colorVars, renderVars, objVars, shapeVars, treeVars, camVars,
                   unitVars>>

BoxNext ==
    \/ CallAABBHit
    \/ CallFromBox

SpecBox == BoxInit /\ [][BoxNext]_vars

HasZeroComponent(r) == \E k \in 1..3 : r.direction[k] = 0

\* C11: AABB.hit returns True or False, and never raises, for a ray whose
\* direction has a zero component.
C11_ZeroComponentNoCrash ==
    (b_hit # "notrun" /\ HasZeroComponent(b_ray)) => b_hit \in {"true", "false"}

\* the parameters t at which the ray is between the two planes of a slab:
\* the interval between (lo - orig) / d and (hi - orig) / d for d # 0
SlabRange(ax, d, orig) ==
    LET ta == RDiv(RSub(ax.min, I2R(orig)), I2R(d))
        tb == RDiv(RSub(ax.max, I2R(orig)), I2R(d))
    IN  Interval(RMin(ta, tb), RMax(ta, tb))

\* the overlap of the three slab ranges with the search interval
SlabOverlap(box, r, rt) ==
    LET sx == SlabRange(box.x, r.direction[1], r.origin[1])
        sy == SlabRange(box.y, r.direction[2], r.origin[2])
        sz == SlabRange(box.z, r.direction[3], r.origin[3])
    IN  Interval(RMax(RMax(rt.min, sx.min), RMax(sy.min, sz.min)),
                 RMin(RMin(rt.max, sx.max), RMin(sy.max, sz.max)))

OverlapEmpty(box, r, rt) ==
    LET o == SlabOverlap(box, r, rt) IN RLe(o.max, o.min)

\* C12: AABB.hit is a correct slab test: False whenever the overlap of the
\* three slabs with the search interval is empty (max <= min), True only for
\* a ray that passes through the box inside the interval.  Stated for rays
\* without a zero component, which C11 is about.
C12_CorrectSlabTest ==
    (b_hit # "notrun" /\ ~HasZeroComponent(b_ray)) =>
        /\ OverlapEmpty(b_box0, b_ray, b_ray_t) => b_hit = "false"
        /\ b_hit = "true" => ~OverlapEmpty(b_box0, b_ray, b_ray_t)

IntervalInside(a, b) == RLe(b.min, a.min) /\ RLe(a.max, b.max)

BoxInside(a, b) ==
    /\ IntervalInside(a.x, b.x)
    /\ IntervalInside(a.y, b.y)
    /\ IntervalInside(a.z, b.z)

\* C20: AABB.from_box is commutative and associative, and from_box(a, b)
\* contains a and b on every axis.
C20_FromBoxAlgebra ==
    bpc = "done" =>
        /\ b_union.ab = b_union.ba
        /\ b_union.ab_c = b_union.a_bc
        /\ BoxInside(b_box0, b_union.ab)
        /\ BoxInside(b_box1, b_union.ab)

\* the union of three different boxes, none of which contains another
C20_Witness ==
    /\ bpc = "done"
    /\ ~BoxInside(b_box0, b_box1) /\ ~BoxInside(b_box1, b_box0)
    /\ ~BoxInside(b_box2, b_union.ab)
    /\ b_union.ab_c # b_union.ab

(***************************************************************************)
(* Triangle (the hittable; vertices are integer points)                    *)
(***************************************************************************)
Min3(a, b, c) == IF a <= b /\ a <= c THEN a ELSE IF b <= c THEN b ELSE c
Max3(a, b, c) == IF a >= b /\ a >= c THEN a ELSE IF b >= c THEN b ELSE c

\* Triangle(vertices, mat)
NewTriangle(vs, mat) ==
    [kind |-> "triangle", center |-> vs[1], vertices |-> vs, mat |-> mat,
     bbox |-> AABB(Interval(I2R(Min3(vs[1][1], vs[2][1], vs[3][1])),
                            I2R(Max3(vs[1][1], vs[2][1], vs[3][1]))),
                   Interval(I2R(Min3(vs[1][2], vs[2][2], vs[3][2])),
                            I2R(Max3(vs[1][2], vs[2][2], vs[3][2]))),
                   Interval(I2R(Min3(vs[1][3], vs[2][3], vs[3][3])),
                            I2R(Max3(vs[1][3], vs[2][3], vs[3][3]))))]

\* Triangle.hit; det is an integer here, so abs(det) < 1e-8 is det = 0
TriangleHit(tr, r, rt, rec) ==
    LET r_dir == r.direction
        v0 == tr.vertices[1]
        e1 == VSub(tr.vertices[2], v0)
        e2 == VSub(tr.vertices[3], v0)
        pvec == cross(r_dir, e2)
        det == dot(pvec, e1)
    IN  IF det = 0 THEN Outcome("none", FALSE, rec, rt)
        ELSE LET tvec == VSub(r.origin, v0)
                 u == Rat(dot(pvec, tvec), det)
                 qvec == cross(tvec, e1)
                 v == Rat(dot(qvec, r_dir), det)
                 t == Rat(dot(e2, qvec), det)
             IN  IF ~IntervalContains(Interval(I2R(0), I2R(1)), u)
                 THEN Outcome("none", FALSE, rec, rt)
                 ELSE IF RLt(v, I2R(0)) \/ RLt(I2R(1), RAdd(u, v))
                 THEN Outcome("none", FALSE, rec, rt)
                 ELSE IF ~IntervalContains(rt, t)
                 THEN Outcome("none", FALSE, rec, rt)
                 ELSE Outcome("none", TRUE, [t |-> t, p |-> RayAt(r, t), mat |-> tr.mat], rt)

(***************************************************************************)
(* One primitive: it is constructed at sh_at with size sh_size, then its   *)
(* hit is called once.  The quad and the triangle lie in the plane         *)
(* z = sh_at.z, with edges of length sh_size along x and y.                *)
(***************************************************************************)
ShapeKinds == {"sphere", "quad", "triangle"}
ShapePositions == {<<0, 0, 5>>, <<0, 0, 2>>, <<1, 1, 4>>, <<-2, -1, 6>>}
ShapeSizes == {1, 2, 4}

ShapeRays == [origin : {<<0, 0, 0>>, <<1, 1, 0>>}, direction : {<<0, 0, 1>>, <<0, 0, 2>>}]

ShapeIntervals == {Interval(<<1, 1000>>, Inf), Interval(<<1, 1000>>, I2R(2)),
                   Interval(I2R(2), I2R(4)), Interval(I2R(4), I2R(6)),
                   Interval(I2R(5), Inf), Interval(I2R(1), I2R(3)),
                   Interval(I2R(3), I2R(7))}

NewShapeOf(kind, at, size) ==
    IF kind = "sphere" THEN Sphere(at, size, "matA")
    ELSE IF kind = "quad" THEN Quad(at, <<size, 0, 0>>, <<0, size, 0>>, "matA")
    ELSE NewTriangle(<<at, VAdd(at, <<size, 0, 0>>), VAdd(at, <<0, size, 0>>)>>, "matA")

\* dynamic dispatch of shape.hit
ShapeHit(obj, r, rt, rec) ==
    IF obj.kind = "triangle" THEN TriangleHit(obj, r, rt, rec) ELSE Hit(obj, r, rt, rec)

ShapeInit ==
    /\ UnitIdle
    /\ HitIdle
    /\ ColorIdle
    /\ RenderIdle
    /\ ObjIdle
    /\ BoxIdle
    /\ TreeIdle
    /\ CamIdle
    /\ sh_kind \in ShapeKinds
    /\ sh_at \in ShapePositions
    /\ sh_size \in ShapeSizes
    /\ sh_ray \in ShapeRays
    /\ sh_ray_t \in ShapeIntervals
    /\ ExactInputs(<<NewShapeOf(sh_kind, sh_at, sh_size)>>, sh_ray)
    /\ shape = <<>>
    /\ sh_out = NotRun
    /\ spc = "new"

\* Sphere(...), Quad(...) or Triangle(...)
NewShape ==
    /\ spc = "new"
    /\ shape' = NewShapeOf(sh_kind, sh_at, sh_size)
    /\ spc' = "hit"
    /\ UNCHANGED <<sh_kind, sh_at, sh_size, sh_ray, sh_ray_t, sh_out>>
    /\ UNCHANGED <<hitVars, colorVars, renderVars, objVars, boxVars, treeVars, camVars,
                   unitVars>>

\* shape.hit(sh_ray, sh_ray_t, HitRecord())
CallShapeHit ==
    /\ spc = "hit"
    /\ sh_out' = ShapeHit(shape, sh_ray, sh_ray_t, HitRecord)
    /\ spc' = "done"
    /\ UNCHANGED <<sh_kind, sh_at, sh_size, shape, sh_ray, sh_ray_t>>
    /\ UNCHANGED <<hitVars, colorVars, renderVars, objVars, boxVars, treeVars, camVars,
                   unitVars>>

ShapeNext ==
    \/ NewShape
    \/ CallShapeHit

SpecShape == ShapeInit /\ [][ShapeNext]_vars

\* the extent of a sphere on one axis: [c - r, c + r]
SphereExtent(c, radius) == Interval(I2R(c - radius), I2R(c + radius))

\* C13: the bbox a Sphere gets at construction encloses the sphere: on each
\* axis it contains [c - r, c + r], wherever the centre is.
C13_SphereBBoxEncloses ==
    (shape # <<>> /\ sh_kind = "sphere") =>
        /\ IntervalInside(SphereExtent(sh_at[1], sh_size), shape.bbox.x)
        /\ IntervalInside(SphereExtent(sh_at[2], sh_size), shape.bbox.y)
        /\ IntervalInside(SphereExtent(sh_at[3], sh_size), shape.bbox.z)

\* where the ray crosses the plane z = sh_at.z of the quad or triangle
PlaneT == Rat(sh_at[3] - sh_ray.origin[3], sh_ray.direction[3])

\* the crossing point, relative to the corner sh_at, in units of the edge
PlaneAlpha == RDiv(RSub(RayAt(sh_ray, PlaneT)[1], I2R(sh_at[1])), I2R(sh_size))
PlaneBeta == RDiv(RSub(RayAt(sh_ray, PlaneT)[2], I2R(sh_at[2])), I2R(sh_size))

InsideQuad ==
    /\ IntervalContains(Interval(I2R(0), I2R(1)), PlaneAlpha)
    /\ IntervalContains(Interval(I2R(0), I2R(1)), PlaneBeta)

SphereStrict == (sh_kind = "sphere" /\ sh_out.hit) => IntervalSurrounds(sh_ray_t, sh_out.rec.t)
TriangleStrict == (sh_kind = "triangle" /\ sh_out.hit) => IntervalSurrounds(sh_ray_t, sh_out.rec.t)
QuadInclusive == sh_kind = "quad" => (sh_out.hit <=> (InsideQuad /\ IntervalContains(sh_ray_t, PlaneT)))

\* C19: Sphere.hit and Triangle.hit accept t only strictly inside the search
\* interval; Quad.hit accepts t inclusively.
C19_StrictAndInclusive ==
    spc = "done" => (SphereStrict /\ TriangleStrict /\ QuadInclusive)

(***************************************************************************)
(* A HittableList is constructed from t_objects, add_asset is called on it *)
(* any number of times, and at the end a BVHNode is built from its assets. *)
(***************************************************************************)
MaxSpan == 5
MaxInitial == 2

TreePool == {quadA, quadB, sphereC}

InitialLists == UNION {[1..n -> TreePool] : n \in 0..MaxInitial}

TreeInit ==
    /\ UnitIdle
    /\ HitIdle
    /\ ColorIdle
    /\ RenderIdle
    /\ ObjIdle
    /\ BoxIdle
    /\ ShapeIdle
    /\ CamIdle
    /\ t_objects \in InitialLists
    /\ t_use_bvh \in BOOLEAN
    /\ t_list = <<>>
    /\ t_added = 0
    /\ t_node = <<>>
    /\ t_axes = <<>>
    /\ t_given = <<>>
    /\ tpc = "new"

\* HittableList(t_objects, use_bvh=t_use_bvh); with use_bvh and no object the
\* constructor does not return (BVHNode([]) recurses until RecursionError)
NewList ==
    /\ tpc = "new"
    /\ IF t_use_bvh /\ t_objects = <<>>
       THEN /\ tpc' = "raised"
            /\ UNCHANGED <<t_list, t_given>>
       ELSE /\ \E axis \in 1..3 : t_list' = HittableList(t_objects, t_use_bvh, axis)
            /\ t_given' = t_objects
            /\ tpc' = "add"
    /\ UNCHANGED <<t_objects, t_use_bvh, t_added, t_node, t_axes>>
    /\ UNCHANGED <<hitVars, colorVars, renderVars, objVars, boxVars, shapeVars, camVars,
                   unitVars>>

\* t_list.add_asset(asset)
AddAsset ==
    /\ tpc = "add"
    /\ Len(t_list.assets) < MaxSpan
    /\ \E asset \in TreePool, axis \in 1..3 :
          /\ t_list' = add_asset(t_list, asset, FALSE, axis)
          /\ t_given' = Append(t_given, asset)
    /\ t_added' = t_added + 1
    /\ UNCHANGED <<t_objects, t_use_bvh, t_node, t_axes, tpc>>
    /\ UNCHANGED <<hitVars, colorVars, renderVars, objVars, boxVars, shapeVars, camVars,
                   unitVars>>

\* BVHNode(t_list.assets): the list is sorted in place.  Every __init__
\* draws its comparator; t_axes keeps the draws of the root and of the two
\* BVHNodes the root constructs when it holds more than 2 primitives
BuildNode ==
    /\ tpc = "add"
    /\ t_list.assets # <<>>
    /\ \E axis \in 1..3 :
          /\ t_node' = BVHNode(t_list.assets, TRUE, axis)
          /\ t_list' = [t_list EXCEPT !.assets = BVHSortedAssets(t_list.assets, TRUE, axis)]
          /\ IF Len(t_list.assets) > 2
             THEN \E left_axis \in 1..3, right_axis \in 1..3 :
                      t_axes' = [root |-> axis, left |-> left_axis, right |-> right_axis]
             ELSE t_axes' = [root |-> axis, left |-> 0, right |-> 0]
    /\ tpc' = "done"
    /\ UNCHANGED <<t_objects, t_use_bvh, t_added, t_given>>
    /\ UNCHANGED <<hitVars, colorVars, renderVars, objVars, boxVars, shapeVars, camVars,
                   unitVars>>

TreeNext ==
    \/ NewList
    \/ AddAsset
    \/ BuildNode

SpecTree == TreeInit /\ [][TreeNext]_vars

SetRMin(S) == CHOOSE m \in S : \A x \in S : RLe(m, x)
SetRMax(S) == CHOOSE m \in S : \A x \in S : RLe(x, m)

\* the union of a non-empty set of boxes: per axis, min of mins and max of maxes
UnionOfBoxes(B) ==
    AABB(Interval(SetRMin({b.x.min : b \in B}), SetRMax({b.x.max : b \in B})),
         Interval(SetRMin({b.y.min : b \in B}), SetRMax({b.y.max : b \in B})),
         Interval(SetRMin({b.z.min : b \in B}), SetRMax({b.z.max : b \in B})))

Range(seq) == {seq[i] : i \in DOMAIN seq}

\* C14: after construction and any sequence of add_asset calls the bbox of
\* the list is the union of the bboxes of the assets in the list.
C14_ListBBoxIsUnion ==
    (t_list # <<>> /\ t_list.assets # <<>>) =>
        t_list.bbox = UnionOfBoxes({a.bbox : a \in Range(t_list.assets)})

\* a list constructed from objects and grown by add_asset, whose bbox is not
\* the bbox of any one of its assets
C14_Witness ==
    /\ t_list # <<>>
    /\ t_objects # <<>>
    /\ t_added >= 2
    /\ \A a \in Range(t_list.assets) : a.bbox # t_list.bbox

IsNode(x) == x.kind = "bvh"

\* the nodes of the tree under a node, the node included
RECURSIVE NodesOf(_)
NodesOf(n) ==
    {n} \cup (IF IsNode(n.left) THEN NodesOf(n.left) ELSE {})
        \cup (IF IsNode(n.right) THEN NodesOf(n.right) ELSE {})

\* the primitives at the leaves of the tree under a node
RECURSIVE LeavesOf(_)
LeavesOf(n) ==
    (IF IsNode(n.left) THEN LeavesOf(n.left) ELSE {n.left})
        \cup (IF IsNode(n.right) THEN LeavesOf(n.right) ELSE {n.right})

\* the trees built so far, each with the list it was built from
BuiltTrees ==
    (IF t_list # <<>> /\ IsNode(t_list.bvh) THEN {<<t_list.bvh, t_list.assets>>} ELSE {})
        \cup (IF t_node # <<>> THEN {<<t_node, t_list.assets>>} ELSE {})

\* C15: every BVHNode built from a non-empty list has two children and the
\* union of their bboxes as bbox; built from 1 primitive it holds it on both
\* sides, from 2 one per side; the leaves are exactly the primitives given.
C15_BinaryTreeOfTheList ==
    \A tr \in BuiltTrees :
        /\ \A n \in NodesOf(tr[1]) :
              /\ DOMAIN n = {"kind", "left", "right", "bbox"}
              /\ n.bbox = UnionOfBoxes({n.left.bbox, n.right.bbox})
        /\ Len(tr[2]) = 1 => (tr[1].left = tr[2][1] /\ tr[1].right = tr[2][1])
        /\ Len(tr[2]) = 2 => (tr[1].left = tr[2][1] /\ tr[1].right = tr[2][2])
        /\ LeavesOf(tr[1]) = Range(tr[2])

\* a tree of five primitives, three of them different: it has inner nodes
\* over a node of one primitive and nodes of two
C15_Witness ==
    /\ t_node # <<>>
    /\ Len(t_list.assets) >= 5
    /\ Cardinality(Range(t_list.assets)) = 3
    /\ Cardinality(NodesOf(t_node)) >= 4

(***************************************************************************)
(* Camera.__init__ and the setters of img_width, img_height, aspect_ratio  *)
(*                                                                         *)
(* The inputs are integer points and vectors for which every length the    *)
(* constructor takes is rational.  tan is given by its table on the fields *)
(* of view used (tan 45 = 1, tan 135 = -1; a field of view of 180 gives    *)
(* tan(pi / 2), about 1.6e16 in floats, which is outside the integers of   *)
(* the model).  w = (center - lookat).unit_vector is rounded by the float  *)
(* division, so for an up vector parallel to w a component of              *)
(* cross(upvec, w) that is the difference of two nonzero products is 0 or  *)
(* a residue of either sign, as the rounding falls; a component whose      *)
(* products are 0 is 0.                                                    *)
(***************************************************************************)
_HEIGHT_ASPECT_BOUNDARY == 4

RVAdd(a, b) == <<RAdd(a[1], b[1]), RAdd(a[2], b[2]), RAdd(a[3], b[3])>>
RVScale(k, a) == <<RMul(k, a[1]), RMul(k, a[2]), RMul(k, a[3])>>
RVNeg(a) == RVScale(I2R(-1), a)
RVDivide(a, k) == <<RDiv(a[1], k), RDiv(a[2], k), RDiv(a[3], k)>>
RVLengthSquared(a) == RVDot(a, a)
RVZero == V2R(<<0, 0, 0>>)

RIsSquare(q) == q[1] >= 0 /\ IsSquare(q[1]) /\ IsSquare(q[2])
RSqrt(q) == <<Sqrt(q[1]), Sqrt(q[2])>>

\* Vector3.unit_vector of a nonzero vector
UnitVector(a) == RVDivide(a, RSqrt(RVLengthSquared(a)))

\* int(q) for q >= 0
IntOf(q) == q[1] \div q[2]

\* tan(degrees_to_radians(fov) / 2)
TanHalf(fov) == IF fov = 90 THEN I2R(1) ELSE I2R(-1)

\* the components of cross(a, b) that are the difference of two nonzero products
ResidueAxes(a, b) ==
    {k \in 1..3 :
        LET i == (k % 3) + 1
            j == ((k + 1) % 3) + 1
        IN  RMul(a[i], b[j]) # I2R(0) /\ RMul(a[j], b[i]) # I2R(0)}

\* cross(upvec, w) as the float arithmetic gives it
FloatCross(upvec, w, rounding) ==
    LET c == RVCross(upvec, w)
    IN  IF c # RVZero \/ rounding = "exact" THEN c
        ELSE [k \in 1..3 |->
                 IF k \in ResidueAxes(upvec, w)
                 THEN (IF rounding = "up" THEN I2R(1) ELSE I2R(-1))
                 ELSE I2R(0)]

\* the attributes set by Camera.__init__ from the image size down to pixel00_loc
CameraGeometry(a, width, height, ratio, w, u) ==
    LET viewport_height == RMul(RMul(I2R(2), TanHalf(a.fov)), I2R(a.focus_dist))
        viewport_width == RMul(viewport_height, Rat(width, height))
        v == RVCross(w, u)
        viewport_u == RVScale(viewport_width, u)
        viewport_v == RVScale(viewport_height, RVNeg(v))
        pixel_delta_u == RVDivide(viewport_u, I2R(width))
        pixel_delta_v == RVDivide(viewport_v, I2R(height))
        viewport_upper_left ==
            RVSub(RVSub(RVSub(V2R(a.center), RVScale(I2R(a.focus_dist), w)),
                        RVDivide(viewport_u, I2R(2))),
                  RVDivide(viewport_v, I2R(2)))
    IN  [img_width |-> width, img_height |-> height, aspect_ratio |-> ratio,
         center |-> a.center, sample_count |-> IF a.sample_count > 1 THEN a.sample_count ELSE 1,
         sample_scale |-> Rat(1, a.sample_count), fov |-> a.fov,
         viewport_height |-> viewport_height, viewport_width |-> viewport_width,
         w |-> w, u |-> u, v |-> v,
         viewport_u |-> viewport_u, viewport_v |-> viewport_v,
         pixel_delta_u |-> pixel_delta_u, pixel_delta_v |-> pixel_delta_v,
         viewport_upper_left |-> viewport_upper_left,
         pixel00_loc |-> RVAdd(viewport_upper_left,
                               RVScale(<<1, 2>>, RVAdd(pixel_delta_u, pixel_delta_v)))]

\* Camera(width, height, center, lookat, upvec, samples, fov, focus_dist):
\* the exception raised, or the Camera
CameraNew(a, rounding) ==
    LET as_height == a.height.is_int /\ RLt(I2R(_HEIGHT_ASPECT_BOUNDARY), a.height.val)
        height == IF as_height THEN IntOf(a.height.val)
                  ELSE (IF IntOf(RDiv(I2R(a.width), a.height.val)) > 1
                        THEN IntOf(RDiv(I2R(a.width), a.height.val)) ELSE 1)
        ratio == IF as_height THEN Rat(a.width, height) ELSE a.height.val
        toward == V2R(VSub(a.center, a.lookat))
    IN  IF a.sample_count = 0 THEN [error |-> "ZeroDivisionError", cam |-> <<>>]
        ELSE IF toward = RVZero THEN [error |-> "ZeroDivisionError", cam |-> <<>>]
        ELSE LET w == UnitVector(toward)
                 c == FloatCross(V2R(a.upvec), w, rounding)
             IN  IF c = RVZero THEN [error |-> "ZeroDivisionError", cam |-> <<>>]
                 ELSE [error |-> "none",
                       cam |-> CameraGeometry(a, a.width, height, ratio, w, UnitVector(c))]

Widths == {4, 8}
HeightArgs == {[is_int |-> TRUE, val |-> I2R(8)],
               [is_int |-> TRUE, val |-> I2R(2)],
               [is_int |-> FALSE, val |-> <<1, 2>>]}
LookAts == {<<0, 0, 0>>, <<0, 0, -1>>, <<0, 3, 0>>, <<0, -3, -4>>}
UpVecs == {<<0, 1, 0>>, <<0, 3, 4>>}
Fovs == {90, 270}
FocusDists == {1, 10}
SampleCounts == {0, 1, 2}
Roundings == {"exact", "up", "down"}

CameraArgs == [width : Widths, height : HeightArgs, center : {<<0, 0, 0>>}, lookat : LookAts,
               upvec : UpVecs, fov : Fovs, focus_dist : FocusDists, sample_count : SampleCounts]

\* every length the constructor takes on these arguments is rational
ExactCamera(a) ==
    LET toward == V2R(VSub(a.center, a.lookat))
    IN  /\ RIsSquare(RVLengthSquared(toward))
        /\ toward # RVZero =>
              \A ro \in Roundings :
                  RIsSquare(RVLengthSquared(FloatCross(V2R(a.upvec), UnitVector(toward), ro)))

CamInit ==
    /\ UnitIdle
    /\ HitIdle
    /\ ColorIdle
    /\ RenderIdle
    /\ ObjIdle
    /\ BoxIdle
    /\ ShapeIdle
    /\ TreeIdle
    /\ cam_args \in CameraArgs
    /\ ExactCamera(cam_args)
    /\ cam_rounding \in Roundings
    /\ cam = <<>>
    /\ cam_error = "none"
    /\ kpc = "new"

\* Camera(...)
NewCamera ==
    /\ kpc = "new"
    /\ cam' = CameraNew(cam_args, cam_rounding).cam
    /\ cam_error' = CameraNew(cam_args, cam_rounding).error
    /\ kpc' = IF CameraNew(cam_args, cam_rounding).error = "none" THEN "set" ELSE "raised"
    /\ UNCHANGED <<cam_args, cam_rounding>>
    /\ UNCHANGED <<hitVars, colorVars, renderVars, objVars, boxVars, shapeVars, treeVars,
                   unitVars>>

\* cam.img_width = value
SetImgWidth ==
    /\ kpc = "set"
    /\ \E value \in Widths : cam' = [cam EXCEPT !.img_width = value]
    /\ UNCHANGED <<cam_args, cam_rounding, cam_error, kpc>>
    /\ UNCHANGED <<hitVars, colorVars, renderVars, objVars, boxVars, shapeVars, treeVars,
                   unitVars>>

\* cam.img_height = value
SetImgHeight ==
    /\ kpc = "set"
    /\ \E value \in Widths : cam' = [cam EXCEPT !.img_height = value]
    /\ UNCHANGED <<cam_args, cam_rounding, cam_error, kpc>>
    /\ UNCHANGED <<hitVars, colorVars, renderVars, objVars, boxVars, shapeVars, treeVars,
                   unitVars>>

\* cam.aspect_ratio = value
SetAspectRatio ==
    /\ kpc = "set"
    /\ \E value \in {I2R(2), <<1, 2>>} : cam' = [cam EXCEPT !.aspect_ratio = value]
    /\ UNCHANGED <<cam_args, cam_rounding, cam_error, kpc>>
    /\ UNCHANGED <<hitVars, colorVars, renderVars, objVars, boxVars, shapeVars, treeVars,
                   unitVars>>

CamNext ==
    \/ NewCamera
    \/ SetImgWidth
    \/ SetImgHeight
    \/ SetAspectRatio

SpecCamera == CamInit /\ [][CamNext]_vars

\* the look-at point is the centre, or the up vector is parallel to the view direction
DegenerateBasis(a) ==
    \/ a.lookat = a.center
    \/ cross(a.upvec, VSub(a.center, a.lookat)) = <<0, 0, 0>>

\* C16: constructing a Camera whose look-at point equals its centre, or whose
\* up vector is parallel to the view direction, raises inside the
\* constructor; no such Camera is returned.
C16_DegenerateBasisRejected ==
    (kpc # "new" /\ DegenerateBasis(cam_args)) => (cam = <<>> /\ cam_error # "none")

\* C17: a Camera with a field of view of 180 degrees or more is rejected by
\* the constructor; none exists after construction.
C17_WideFovRejected ==
    (kpc # "new" /\ cam_args.fov >= 180) => (cam = <<>> /\ cam_error # "none")

\* C18: after any assignments to img_width, img_height and aspect_ratio the
\* derived geometry matches the current image dimensions.
C18_GeometryFollowsSetters ==
    cam # <<>> =>
        /\ cam.pixel_delta_u = RVDivide(cam.viewport_u, I2R(cam.img_width))
        /\ cam.pixel_delta_v = RVDivide(cam.viewport_v, I2R(cam.img_height))
        /\ cam.viewport_width = RMul(cam.viewport_height, Rat(cam.img_width, cam.img_height))

(***************************************************************************)
(* Scene: construction, add_asset, clear and one call of ray_color         *)
(*                                                                         *)
(* A Color is its three channels, exact rationals.  ray_color tests the    *)
(* ray against the assets of the scene as Scene.hit does.  On a miss it    *)
(* returns skybox.get_color(r).  On a hit it calls emitted and scatter of  *)
(* the material hit and, when the material scatters, r_ray_color on a      *)
(* scattered ray that the material draws at random; the Color it returns   *)
(* then is drawn from ShadedColors.                                        *)
(***************************************************************************)
_MIN_INTERVAL_DIFFERENCE == <<1, 1000>>

Color(r, g, b) == <<r, g, b>>

\* Color.__add__ and Color.__mul__ by a number
ColorAdd(a, b) == <<RAdd(a[1], b[1]), RAdd(a[2], b[2]), RAdd(a[3], b[3])>>
ColorScale(k, c) == <<RMul(c[1], k), RMul(c[2], k), RMul(c[3], k)>>

\* Lerp(upper, lower) and Mono(color)
Lerp(upper, lower) == [kind |-> "Lerp", c1 |-> upper, c2 |-> lower]
Mono(color) == [kind |-> "Mono", color |-> color]

\* Lerp.get_color and Mono.get_color
SkyGetColor(sky, r) ==
    IF sky.kind = "Mono" THEN sky.color
    ELSE LET unit_direction == UnitVector(V2R(r.direction))
             a == RMul(<<1, 2>>, RAdd(unit_direction[2], I2R(1)))
         IN  ColorAdd(ColorScale(RSub(I2R(1), a), sky.c2), ColorScale(a, sky.c1))

\* the default skybox of Scene.__init__, and a Mono
Skyboxes == {Lerp(Color(<<7, 10>>, <<1, 2>>, I2R(1)), Color(I2R(1), I2R(1), I2R(1))),
             Mono(Color(<<1, 5>>, <<2, 5>>, <<3, 5>>))}

ScenePool == {sphereA, quadA, sphereC}

SceneLists == UNION {[1..n -> ScenePool] : n \in 0..MaxInitial}

\* what ray_color returns after a hit
ShadedColors == {Color(I2R(0), I2R(0), I2R(0)), Color(<<1, 2>>, <<1, 2>>, <<1, 2>>)}

\* a clear that leaves the assets in the scene
SceneClearKeeps(assets) == assets

\* Scene.clear: self.assets = []
SceneClear(assets) == <<>>

\* Scene.add_asset: self.assets.append(asset)
SceneAddAsset(assets, asset) == Append(assets, asset)

\* Scene.__init__: add_asset for each asset given, from index i on
RECURSIVE SceneAddAll(_, _, _)
SceneAddAll(assets, given, i) ==
    IF i > Len(given) THEN assets
    ELSE SceneAddAll(SceneAddAsset(assets, given[i]), given, i + 1)

SceneInit ==
    /\ HitIdle
    /\ ColorIdle
    /\ RenderIdle
    /\ ObjIdle
    /\ GeomIdle
    /\ TextureIdle
    /\ QuantIdle
    /\ GetRayIdle
    /\ ExpandIdle
    /\ CoverIdle
    /\ OldIdle
    /\ BuildIdle
    /\ s_skybox \in Skyboxes
    /\ s_assets = <<>>
    /\ s_total = 0
    /\ s_added = 0
    /\ s_ray = <<>>
    /\ s_limit = 0
    /\ s_color = <<>>
    /\ s_mat_called = FALSE
    /\ scene_pc = "new"

\* Scene(assets, skybox)
ConstructScene ==
    /\ scene_pc = "new"
    /\ \E given \in SceneLists :
          /\ s_assets' = SceneAddAll(<<>>, given, 1)
          /\ s_total' = Len(given)
          /\ s_added' = Len(given)
    /\ scene_pc' = "edit"
    /\ UNCHANGED <<s_skybox, s_ray, s_limit, s_color, s_mat_called>>
    /\ UNCHANGED <<hitVars, colorVars, renderVars, objVars, boxVars, shapeVars, treeVars,
                   camVars, textureVars, quantVars, getrayVars, expandVars, coverVars,
                   oldVars, buildVars>>

\* scene.add_asset(asset)
CallSceneAddAsset ==
    /\ scene_pc = "edit"
    /\ s_total < MaxAssets
    /\ \E asset \in ScenePool : s_assets' = SceneAddAsset(s_assets, asset)
    /\ s_total' = s_total + 1
    /\ s_added' = s_added + 1
    /\ UNCHANGED <<s_skybox, s_ray, s_limit, s_color, s_mat_called, scene_pc>>
    /\ UNCHANGED <<hitVars, colorVars, renderVars, objVars, boxVars, shapeVars, treeVars,
                   camVars, textureVars, quantVars, getrayVars, expandVars, coverVars,
                   oldVars, buildVars>>

\* scene.clear()
CallSceneClear ==
    /\ scene_pc = "edit"
    /\ s_added > 0
    /\ s_assets' = SceneClear(s_assets)
    /\ s_added' = 0
    /\ UNCHANGED <<s_skybox, s_total, s_ray, s_limit, s_color, s_mat_called, scene_pc>>
    /\ UNCHANGED <<hitVars, colorVars, renderVars, objVars, boxVars, shapeVars, treeVars,
                   camVars, textureVars, quantVars, getrayVars, expandVars, coverVars,
                   oldVars, buildVars>>

\* scene.ray_color(r, limit)
CallRayColor ==
    /\ scene_pc = "edit"
    /\ \E r \in Rays, lim \in 0..MaxLimit :
          /\ ExactInputs(s_assets, r)
          /\ s_ray' = r
          /\ s_limit' = lim
          /\ LET o == SceneHit(s_assets, r, Interval(_MIN_INTERVAL_DIFFERENCE, Inf), HitRecord)
             IN  IF o.hit
                 THEN /\ s_mat_called' = TRUE
                      /\ \E c \in ShadedColors : s_color' = c
                 ELSE /\ s_mat_called' = FALSE
                      /\ s_color' = SkyGetColor(s_skybox, r)
    /\ scene_pc' = "done"
    /\ UNCHANGED <<s_skybox, s_assets, s_total, s_added>>
    /\ UNCHANGED <<hitVars, colorVars, renderVars, objVars, boxVars, shapeVars, treeVars,
                   camVars, textureVars, quantVars, getrayVars, expandVars, coverVars,
                   oldVars, buildVars>>

SceneNext ==
    \/ ConstructScene
    \/ CallSceneAddAsset
    \/ CallSceneClear
    \/ CallRayColor

SpecScene == SceneInit /\ [][SceneNext]_vars

\* C21: in a scene that holds no asset (constructed empty, or cleared and not
\* added to since) ray_color returns skybox.get_color(ray) for every ray and
\* every limit, and calls no material.
C21_EmptySceneIsSky ==
    (scene_pc = "done" /\ s_added = 0) =>
        /\ s_color = SkyGetColor(s_skybox, s_ray)
        /\ ~s_mat_called

\* ray_color returned in a scene that was given assets and then cleared, for
\* a ray that the Lerp skybox does not colour as its lower colour
C21_Witness ==
    /\ scene_pc = "done"
    /\ s_total >= 2
    /\ s_added = 0
    /\ s_limit > 0
    /\ s_skybox.kind = "Lerp"
    /\ s_color \notin {s_skybox.c1, s_skybox.c2}

(***************************************************************************)
(* ImageMap.value and Textured.get_color                                   *)
(*                                                                         *)
(* The image has mode tex_mode and size tex_size; the pixel at (x, y) is   *)
(* PixelAt(mode, x, y), a number in modes L and P and a tuple of 3 or 4    *)
(* numbers in modes RGB and RGBA.  Offsets are the default (0, 0).  The    *)
(* rays given to Textured.get_color run along an axis, where atan2 and     *)
(* asin are multiples of pi / 2 and (u, v) is rational.                    *)
(***************************************************************************)
ImageModes == {"L", "P", "RGB", "RGBA"}
ImageSizes == {<<1, 1>>, <<2, 2>>, <<2, 3>>}
Coordinates == {I2R(0), <<1, 4>>, <<1, 2>>, <<3, 4>>, I2R(1)}
AxisDirections == {<<1, 0, 0>>, <<-1, 0, 0>>, <<0, 1, 0>>, <<0, -1, 0>>, <<0, 0, 1>>,
                   <<0, 0, -1>>}

\* im.getpixel((x, y))
PixelAt(mode, x, y) ==
    LET red == 16 * x + y + 1
    IN  IF mode \in {"L", "P"} THEN red
        ELSE IF mode = "RGB" THEN <<red, red + 32, red + 64>>
        ELSE <<red, red + 32, red + 64, 255>>

\* int(q): truncation toward zero
IntTrunc(q) == IF q[1] >= 0 THEN q[1] \div q[2] ELSE -((-q[1]) \div q[2])

\* Color(*args): Color.__init__ takes exactly r, g and b
ColorOfArgs(args) ==
    IF Len(args) = 3 THEN [exc |-> "none", color |-> Color(args[1], args[2], args[3])]
    ELSE [exc |-> "TypeError", color |-> <<>>]

\* _load_from_float, _load_from_rgb and _load_from_rgba
LoadFromFloat(c) == ColorOfArgs(<<I2R(c), I2R(c), I2R(c)>>)
LoadFromRGB(c) ==
    LET made == ColorOfArgs(<<I2R(c[1]), I2R(c[2]), I2R(c[3])>>)
    IN  [exc |-> "none", color |-> ColorScale(<<1, 256>>, made.color)]
LoadFromRGBA(c) == ColorOfArgs([i \in 1..2 |-> I2R(c[i])])

\* self._color_handle: chosen in __init__ by the mode of the image
ColorHandle(mode, albedo) ==
    IF mode \in {"L", "P"} THEN LoadFromFloat(albedo)
    ELSE IF mode = "RGBA" THEN LoadFromRGBA(albedo)
    ELSE LoadFromRGB(albedo)

\* the pixel looked up for (u, v): ((int(u * w + ox)) % w, -(int(v * h - oy)) % h)
PixelIndex(size, u, v) ==
    <<IntTrunc(RMul(u, I2R(size[1]))) % size[1],
      (-IntTrunc(RMul(v, I2R(size[2])))) % size[2]>>

\* ImageMap.value(u, v, p)
ImageMapValue(mode, size, u, v) ==
    LET at == PixelIndex(size, u, v)
    IN  ColorHandle(mode, PixelAt(mode, at[1], at[2]))

\* (phi + PI) / _TWO_PI and (theta - _PI_OVER_TWO) / PI for a ray along an axis
SkyU(direction) ==
    IF direction[3] = 1 THEN <<3, 4>>
    ELSE IF direction[3] = -1 THEN <<1, 4>>
    ELSE IF direction[1] = -1 THEN I2R(1)
    ELSE <<1, 2>>
SkyV(direction) ==
    IF direction[2] = 1 THEN I2R(0)
    ELSE IF direction[2] = -1 THEN I2R(-1)
    ELSE <<-1, 2>>

\* Textured.get_color(r), mul = 1
TexturedGetColor(mode, size, direction) ==
    LET at == PixelIndex(size, SkyU(direction), SkyV(direction))
        made == ColorHandle(mode, PixelAt(mode, at[1], at[2]))
    IN  IF made.exc # "none" THEN made
        ELSE [exc |-> "none", color |-> ColorScale(I2R(1), made.color)]

TextureInit ==
    /\ HitIdle
    /\ ColorIdle
    /\ RenderIdle
    /\ ObjIdle
    /\ GeomIdle
    /\ SceneIdle
    /\ QuantIdle
    /\ GetRayIdle
    /\ ExpandIdle
    /\ CoverIdle
    /\ OldIdle
    /\ BuildIdle
    /\ tex_mode \in ImageModes
    /\ tex_size \in ImageSizes
    /\ tex_at = <<>>
    /\ tex_out = [exc |-> "notrun"]
    /\ tex_pc = "new"

\* ImageMap(img).value(u, v, p)
CallImageMapValue ==
    /\ tex_pc = "new"
    /\ \E u \in Coordinates, v \in Coordinates :
          /\ tex_at' = <<u, v>>
          /\ tex_out' = ImageMapValue(tex_mode, tex_size, u, v)
    /\ tex_pc' = "done"
    /\ UNCHANGED <<tex_mode, tex_size>>
    /\ UNCHANGED <<hitVars, colorVars, renderVars, objVars, boxVars, shapeVars, treeVars,
                   camVars, sceneVars, quantVars, getrayVars, expandVars, coverVars,
                   oldVars, buildVars>>

\* Textured(img).get_color(r)
CallTexturedGetColor ==
    /\ tex_pc = "new"
    /\ \E direction \in AxisDirections :
          /\ tex_at' = direction
          /\ tex_out' = TexturedGetColor(tex_mode, tex_size, direction)
    /\ tex_pc' = "done"
    /\ UNCHANGED <<tex_mode, tex_size>>
    /\ UNCHANGED <<hitVars, colorVars, renderVars, objVars, boxVars, shapeVars, treeVars,
                   camVars, sceneVars, quantVars, getrayVars, expandVars, coverVars,
                   oldVars, buildVars>>

TextureNext ==
    \/ CallImageMapValue
    \/ CallTexturedGetColor

SpecTexture == TextureInit /\ [][TextureNext]_vars

\* the pixel the lookup of tex_at reads
PixelRead ==
    LET at == IF Len(tex_at) = 2 THEN PixelIndex(tex_size, tex_at[1], tex_at[2])
              ELSE PixelIndex(tex_size, SkyU(tex_at), SkyV(tex_at))
    IN  PixelAt(tex_mode, at[1], at[2])

\* C22 (as claimed): on an RGBA image ImageMap.value and Textured.get_color
\* return a Color for every (u, v), made of the red and green of the pixel.
C22_RGBALookupReturnsColor ==
    (tex_pc = "done" /\ tex_mode = "RGBA") =>
        /\ tex_out.exc = "none"
        /\ tex_out.color[1] = I2R(PixelRead[1])
        /\ tex_out.color[2] = I2R(PixelRead[2])

\* the lookups on images of the other modes return a Color
OtherModesReturnColor ==
    (tex_pc = "done" /\ tex_mode # "RGBA") => tex_out.exc = "none"

(***************************************************************************)
(* One pixel of render_mono and _render_block: the sample loop and         *)
(* im.putpixel((x, y), (pixel_color * sample_scale).as_tuple(256))         *)
(*                                                                         *)
(* scene.ray_color returns one of SampleColors: black, a grey, white (the  *)
(* lower colour of the default skybox), the upper colour of the default    *)
(* skybox, colours of lights brighter than 1 and some darker colours.      *)
(***************************************************************************)
SampleColors == {Color(I2R(0), I2R(0), I2R(0)),
                 Color(<<1, 4>>, <<1, 4>>, <<1, 4>>),
                 Color(I2R(1), I2R(1), I2R(1)),
                 Color(<<7, 10>>, <<1, 2>>, I2R(1)),
                 Color(I2R(4), <<1, 4>>, <<1, 16>>),
                 Color(<<1, 16>>, <<1, 16>>, <<1, 16>>),
                 Color(<<1, 2>>, <<1, 2>>, <<1, 2>>),
                 Color(<<9, 16>>, <<1, 4>>, I2R(0)),
                 Color(I2R(0), I2R(0), I2R(1)),
                 Color(<<9, 4>>, I2R(1), <<1, 4>>)}

\* the largest s with s * s <= n
FloorSqrt(n) == CHOOSE s \in 0..n : s * s <= n /\ (s + 1) * (s + 1) > n

\* Interval.clamp of rtrace/hittable.py
IntervalClamp(iv, x) ==
    IF RLt(x, iv.min) THEN iv.min
    ELSE IF RLt(iv.max, x) THEN iv.max
    ELSE x

\* int(shift * intensity.clamp(sqrt(x))), intensity = Interval(0, 1): the
\* square root of x is below 0, inside or above 1 as x is, and for x inside
\* the integer part of shift * sqrt(x) is the floor of sqrt(shift * shift * x)
QuantizeChannel(x, shift) ==
    LET intensity == Interval(I2R(0), I2R(1))
    IN  IF IntervalClamp(intensity, x) # x
        THEN IntOf(RMul(I2R(shift), IntervalClamp(intensity, x)))
        ELSE FloorSqrt(IntOf(RMul(I2R(shift * shift), x)))

\* Color.as_tuple(shift); math.sqrt raises ValueError below 0
AsTuple(c, shift) ==
    IF \E i \in 1..3 : RLt(c[i], I2R(0)) THEN [exc |-> "ValueError", value |-> <<>>]
    ELSE [exc |-> "none", value |-> [i \in 1..3 |-> QuantizeChannel(c[i], shift)]]

\* self.sample_scale = 1 / samples
SampleScale(n) == <<1, n>>

QuantInit ==
    /\ HitIdle
    /\ ColorIdle
    /\ RenderIdle
    /\ ObjIdle
    /\ GeomIdle
    /\ SceneIdle
    /\ TextureIdle
    /\ GetRayIdle
    /\ ExpandIdle
    /\ CoverIdle
    /\ OldIdle
    /\ BuildIdle
    /\ q_samples \in 1..MaxSamples
    /\ q_pixel_color = Color(I2R(0), I2R(0), I2R(0))
    /\ q_iter = 0
    /\ q_out = [exc |-> "notrun"]
    /\ quant_pc = "sample"

\* one pass of the sample loop: pixel_color += scene.ray_color(r, rlim)
AddSample ==
    /\ quant_pc = "sample"
    /\ q_iter < q_samples
    /\ \E c \in SampleColors : q_pixel_color' = ColorAdd(q_pixel_color, c)
    /\ q_iter' = q_iter + 1
    /\ UNCHANGED <<q_samples, q_out, quant_pc>>
    /\ UNCHANGED <<hitVars, colorVars, renderVars, objVars, boxVars, shapeVars, treeVars,
                   camVars, sceneVars, textureVars, getrayVars, expandVars, coverVars,
                   oldVars, buildVars>>

\* im.putpixel((x, y), (pixel_color * sample_scale).as_tuple(256))
PutPixel ==
    /\ quant_pc = "sample"
    /\ q_iter = q_samples
    /\ q_out' = AsTuple(ColorScale(SampleScale(q_samples), q_pixel_color), 256)
    /\ quant_pc' = "done"
    /\ UNCHANGED <<q_samples, q_pixel_color, q_iter>>
    /\ UNCHANGED <<hitVars, colorVars, renderVars, objVars, boxVars, shapeVars, treeVars,
                   camVars, sceneVars, textureVars, getrayVars, expandVars, coverVars,
                   oldVars, buildVars>>

QuantNext ==
    \/ AddSample
    \/ PutPixel

SpecQuant == QuantInit /\ [][QuantNext]_vars

\* C23 (as claimed): every channel written through as_tuple(256) is an
\* integer in 0..255, for every averaged pixel colour.
C23_ChannelsInByteRange ==
    quant_pc = "done" =>
        /\ q_out.exc = "none"
        /\ \A i \in 1..3 : q_out.value[i] \in 0..255

\* the channels written are in 0..255 when the averaged colour is below 1
BelowOneInByteRange ==
    LET averaged == ColorScale(SampleScale(q_samples), q_pixel_color)
    IN  (quant_pc = "done" /\ \A i \in 1..3 : RLt(averaged[i], I2R(1))) =>
            /\ q_out.exc = "none"
            /\ \A i \in 1..3 : q_out.value[i] \in 0..255

(***************************************************************************)
(* Camera.get_ray                                                          *)
(*                                                                         *)
(* The cameras are constructed from arguments on which the constructor     *)
(* computes in rationals, with focus_angle 0 (no defocus) or 90 (tan 45 =  *)
(* 1) and either offset server.  random() and random_on_unit_disc() draw   *)
(* from a few rationals of their ranges.                                   *)
(***************************************************************************)
FocusAngles == {0, 90}
OffsetServers == {"s", "d"}

\* random() - 0.5 for random() in [0, 1)
RandomOffsets == {<<-1, 2>>, I2R(0), <<1, 4>>}

\* points p with p.length_squared < 1
UnitDiscPoints == {<<I2R(0), I2R(0)>>, <<<<1, 2>>, I2R(0)>>, <<I2R(0), <<-1, 2>>>>,
                   <<<<1, 2>>, <<1, 2>>>>}

GetRayArgs ==
    {a \in CameraArgs :
        /\ a.width = 4
        /\ a.height = [is_int |-> FALSE, val |-> <<1, 2>>]
        /\ a.fov = 90
        /\ a.sample_count > 0
        /\ ExactCamera(a)
        /\ CameraNew(a, "exact").error = "none"}

\* tan(degrees_to_radians(focus_angle / 2))
TanHalfFocus(focus_angle) == IF focus_angle = 0 THEN I2R(0) ELSE TanHalf(focus_angle)

\* the defocus attributes and the servers set at the end of Camera.__init__
CameraLens(camera, focus_dist, focus_angle, offset_server) ==
    LET defocus_radians == RMul(I2R(focus_dist), TanHalfFocus(focus_angle))
    IN  [defocus_angle |-> focus_angle,
         defocus_disc_u |-> RVScale(defocus_radians, camera.u),
         defocus_disc_v |-> RVScale(defocus_radians, camera.v),
         offset_server |-> IF camera.sample_count > 1
                           THEN (IF offset_server = "s" THEN "sample_square"
                                 ELSE "derterministic_square")
                           ELSE "monosampled_square",
         center_server |-> IF focus_angle <= 0 THEN "get_center" ELSE "defocus_disc_sample"]

\* q % 1 for q >= 0
RMod1(q) == Rat(q[1] % q[2], q[2])

\* the values self.offset_server(iter) can return
OffsetsServed(camera, lens, iter) ==
    IF lens.offset_server = "monosampled_square" THEN {<<I2R(0), I2R(0)>>}
    ELSE IF lens.offset_server = "sample_square" THEN RandomOffsets \X RandomOffsets
    ELSE {<<RSub(RMod1(Rat(iter, camera.sample_count)), <<1, 2>>),
            RSub(Rat(3 * iter, camera.sample_count), <<1, 2>>)>>}

\* Camera.defocus_disc_sample when random_on_unit_disc returns p
DefocusDiscSample(camera, lens, p) ==
    RVAdd(RVAdd(V2R(camera.center), RVScale(p[1], lens.defocus_disc_u)),
          RVScale(p[2], lens.defocus_disc_v))

\* pixel_sample of get_ray
PixelSample(camera, i, j, offset) ==
    RVAdd(RVAdd(camera.pixel00_loc,
                RVScale(RAdd(I2R(i), offset[1]), camera.pixel_delta_u)),
          RVScale(RAdd(I2R(j), offset[2]), camera.pixel_delta_v))

\* Ray(self.center_server(), pixel_sample - self.center), origin being what
\* self.center_server() returned
GetRay(camera, origin, i, j, offset) ==
    [origin |-> origin,
     direction |-> RVSub(PixelSample(camera, i, j, offset), V2R(camera.center))]

GetRayInit ==
    /\ HitIdle
    /\ ColorIdle
    /\ RenderIdle
    /\ ObjIdle
    /\ GeomIdle
    /\ SceneIdle
    /\ TextureIdle
    /\ QuantIdle
    /\ ExpandIdle
    /\ CoverIdle
    /\ OldIdle
    /\ BuildIdle
    /\ \E a \in GetRayArgs, focus_angle \in FocusAngles, server \in OffsetServers :
          /\ g_cam = CameraNew(a, "exact").cam
          /\ g_lens = CameraLens(CameraNew(a, "exact").cam, a.focus_dist, focus_angle, server)
    /\ g_pixel = <<>>
    /\ g_offset = <<>>
    /\ g_disc = <<>>
    /\ g_ray = <<>>
    /\ getray_pc = "call"

\* cam.get_ray(i, j, iter) of a camera without defocus
GetRayFromCenter ==
    /\ getray_pc = "call"
    /\ g_lens.center_server = "get_center"
    /\ \E i \in 0 .. (g_cam.img_width - 1), j \in 0 .. (g_cam.img_height - 1),
          iter \in 0 .. (g_cam.sample_count - 1) :
          \E offset \in OffsetsServed(g_cam, g_lens, iter) :
              /\ g_pixel' = <<i, j, iter>>
              /\ g_offset' = offset
              /\ g_ray' = GetRay(g_cam, V2R(g_cam.center), i, j, offset)
    /\ getray_pc' = "done"
    /\ UNCHANGED <<g_cam, g_lens, g_disc>>
    /\ UNCHANGED <<hitVars, colorVars, renderVars, objVars, boxVars, shapeVars, treeVars,
                   camVars, sceneVars, textureVars, quantVars, expandVars, coverVars,
                   oldVars, buildVars>>

\* cam.get_ray(i, j, iter) of a camera with defocus
GetRayFromDisc ==
    /\ getray_pc = "call"
    /\ g_lens.center_server = "defocus_disc_sample"
    /\ \E i \in 0 .. (g_cam.img_width - 1), j \in 0 .. (g_cam.img_height - 1),
          iter \in 0 .. (g_cam.sample_count - 1), p \in UnitDiscPoints :
          \E offset \in OffsetsServed(g_cam, g_lens, iter) :
              /\ g_pixel' = <<i, j, iter>>
              /\ g_offset' = offset
              /\ g_disc' = p
              /\ g_ray' = GetRay(g_cam, DefocusDiscSample(g_cam, g_lens, p), i, j, offset)
    /\ getray_pc' = "done"
    /\ UNCHANGED <<g_cam, g_lens>>
    /\ UNCHANGED <<hitVars, colorVars, renderVars, objVars, boxVars, shapeVars, treeVars,
                   camVars, sceneVars, textureVars, quantVars, expandVars, coverVars,
                   oldVars, buildVars>>

GetRayNext ==
    \/ GetRayFromCenter
    \/ GetRayFromDisc

SpecGetRay == GetRayInit /\ [][GetRayNext]_vars

\* the ray returned points from its origin to the pixel sample
PointsAtSample ==
    RVAdd(g_ray.origin, g_ray.direction) =
        PixelSample(g_cam, g_pixel[1], g_pixel[2], g_offset)

\* C24 (as claimed): for every pixel and sample the ray of get_ray has
\* origin + direction equal to the jittered pixel sample, from the camera
\* centre and from a point of the defocus disc alike.
C24_RayPointsAtSample == getray_pc = "done" => PointsAtSample

\* without defocus the ray does point at the pixel sample
FromCenterPointsAtSample == (getray_pc = "done" /\ g_disc = <<>>) => PointsAtSample

(***************************************************************************)
(* Interval.expand (the same code in rtrace/assets/hittable.py and in      *)
(* rtrace/hittable.py)                                                     *)
(***************************************************************************)
MaxEnd == 2

Ends == {I2R(n) : n \in (-MaxEnd) .. MaxEnd} \cup {<<1, 2>>}
Deltas == {I2R(0), <<1, 2>>, I2R(1), I2R(2), I2R(3)}

ExpandIntervals == {Interval(lo, hi) : lo \in Ends, hi \in Ends}

\* padding = delta / 2; return Interval(self.min - padding, self.max - padding)
IntervalExpand(iv, delta) ==
    LET padding == RDiv(delta, I2R(2))
    IN  Interval(RSub(iv.min, padding), RSub(iv.max, padding))

\* Interval.size
IntervalSize(iv) == RSub(iv.max, iv.min)

ExpandInit ==
    /\ HitIdle
    /\ ColorIdle
    /\ RenderIdle
    /\ ObjIdle
    /\ GeomIdle
    /\ SceneIdle
    /\ TextureIdle
    /\ QuantIdle
    /\ GetRayIdle
    /\ CoverIdle
    /\ OldIdle
    /\ BuildIdle
    /\ e_interval \in ExpandIntervals
    /\ RLe(e_interval.min, e_interval.max)
    /\ e_delta \in Deltas
    /\ e_result = <<>>
    /\ e_receiver = e_interval
    /\ expand_pc = "call"

\* e_interval.expand(e_delta)
CallExpand ==
    /\ expand_pc = "call"
    /\ e_result' = IntervalExpand(e_interval, e_delta)
    /\ e_receiver' = e_interval
    /\ expand_pc' = "done"
    /\ UNCHANGED <<e_interval, e_delta>>
    /\ UNCHANGED <<hitVars, colorVars, renderVars, objVars, boxVars, shapeVars, treeVars,
                   camVars, sceneVars, textureVars, quantVars, getrayVars, coverVars,
                   oldVars, buildVars>>

ExpandNext ==
    \/ CallExpand

SpecExpand == ExpandInit /\ [][ExpandNext]_vars

\* C25 (as claimed): expand(delta) returns an interval with min lowered by
\* delta / 2 and max raised by delta / 2, so its size grows by delta, and
\* leaves the receiver unchanged.
C25_ExpandWidens ==
    expand_pc = "done" =>
        /\ e_result.min = RSub(e_interval.min, RDiv(e_delta, I2R(2)))
        /\ e_result.max = RAdd(e_interval.max, RDiv(e_delta, I2R(2)))
        /\ IntervalSize(e_result) = RAdd(IntervalSize(e_interval), e_delta)
        /\ e_receiver = e_interval

\* the part of the claim that the code meets: min is lowered by delta / 2 and
\* the receiver is unchanged
ExpandLowersMin ==
    expand_pc = "done" =>
        /\ e_result.min = RSub(e_interval.min, RDiv(e_delta, I2R(2)))
        /\ e_receiver = e_interval

(***************************************************************************)
(* The order of the primitives under the nodes of t_node.  A node built    *)
(* from more than 2 primitives has two BVHNodes as children; with at most  *)
(* 9 primitives in the list only the root and its two children can hold    *)
(* more than 2.                                                            *)
(***************************************************************************)
\* every primitive under the left child has its bbox minimum on `axis` at or
\* below that of every primitive under the right child
SplitIsSorted(n, axis) ==
    \A a \in LeavesOf(n.left), b \in LeavesOf(n.right) :
        RLe(AxisMin(a, axis), AxisMin(b, axis))

HoldsMoreThanTwo(n) == IsNode(n) /\ IsNode(n.left)

\* the root, built with sort_assets=True, is split in the order of its own axis
RootSplitIsSorted ==
    (t_node # <<>> /\ HoldsMoreThanTwo(t_node)) => SplitIsSorted(t_node, t_axes.root)

\* C26 (as claimed): every node built from more than 2 primitives is split
\* in the order of the bbox minimum on the axis chosen for that node.
C26_EveryNodeSortsItsOwn ==
    (t_node # <<>> /\ HoldsMoreThanTwo(t_node)) =>
        /\ SplitIsSorted(t_node, t_axes.root)
        /\ HoldsMoreThanTwo(t_node.left) => SplitIsSorted(t_node.left, t_axes.left)
        /\ HoldsMoreThanTwo(t_node.right) => SplitIsSorted(t_node.right, t_axes.right)

\* how many times asset a is in the list
CountIn(seq, a) == Cardinality({i \in DOMAIN seq : seq[i] = a})

CoverDims == 1 .. MaxDim

\* a _render_block that unpacks the index by the height of the block
BlockCoordByHeight(range_x, range_y, i) ==
    LET block_height == range_y[2] - range_y[1]
    IN  <<(i % block_height) + range_x[1], (i \div block_height) + range_y[1]>>

\* pass i of the loop of _render_block: x, y = i % block_width, i // block_width;
\* the pixel rendered is (x + range_x[0], y + range_y[0])
BlockCoord(range_x, range_y, i) ==
    LET block_width == range_x[2] - range_x[1]
    IN  <<(i % block_width) + range_x[1], (i \div block_width) + range_y[1]>>

\* the pixels of the passes of _render_block, in order
BlockCoords(range_x, range_y) ==
    LET block_width == range_x[2] - range_x[1]
        block_height == range_y[2] - range_y[1]
    IN  [i \in 0 .. (block_width * block_height - 1) |-> BlockCoord(range_x, range_y, i)]

\* the pixels of the passes of the loop of render_mono, in order
MonoCoords(w, h) ==
    LET width == w
        height == MonoLocalHeight(w, h)
    IN  [i \in 0 .. (w * h - 1) |-> <<i % width, i \div height>>]

\* how many passes of a loop are made for pixel p
Passes(coords, p) ==
    LET visited == {coords[i] : i \in DOMAIN coords}
    IN  IF Cardinality(visited) = Cardinality(DOMAIN coords)
        THEN (IF p \in visited THEN 1 ELSE 0)
        ELSE Cardinality({i \in DOMAIN coords : coords[i] = p})

\* the counts after the passes of one more loop
Counted(count, coords) == [p \in DOMAIN count |-> count[p] + Passes(coords, p)]

\* the coordinates of a loop that are outside the image
Outside(w, h, coords) == {coords[i] : i \in DOMAIN coords} \ Pixels(w, h)

CoverInit ==
    /\ HitIdle
    /\ ColorIdle
    /\ RenderIdle
    /\ ObjIdle
    /\ GeomIdle
    /\ SceneIdle
    /\ TextureIdle
    /\ QuantIdle
    /\ GetRayIdle
    /\ ExpandIdle
    /\ OldIdle
    /\ BuildIdle
    /\ v_width \in CoverDims
    /\ v_height \in CoverDims
    /\ v_blocks = <<>>
    /\ v_rendered = {}
    /\ v_multi = [p \in Pixels(v_width, v_height) |-> 0]
    /\ v_multi_out = {}
    /\ v_mono = [p \in Pixels(v_width, v_height) |-> 0]
    /\ v_mono_out = {}
    /\ v_mono_done = FALSE
    /\ cover_pc = "start"

\* the loop of render_mono
MonoLoop ==
    /\ cover_pc = "start"
    /\ ~v_mono_done
    /\ v_mono' = Counted(v_mono, MonoCoords(v_width, v_height))
    /\ v_mono_out' = Outside(v_width, v_height, MonoCoords(v_width, v_height))
    /\ v_mono_done' = TRUE
    /\ UNCHANGED <<v_width, v_height, v_blocks, v_rendered, v_multi, v_multi_out, cover_pc>>
    /\ UNCHANGED <<hitVars, colorVars, renderVars, objVars, boxVars, shapeVars, treeVars,
                   camVars, sceneVars, textureVars, quantVars, getrayVars, expandVars,
                   oldVars, buildVars>>

\* render_multi generates the block ranges, once render_mono is over
GenerateBlocks ==
    /\ cover_pc = "start"
    /\ v_mono_done
    /\ v_blocks' = BlockArgs(v_width, v_height)
    /\ cover_pc' = "blocks"
    /\ UNCHANGED <<v_width, v_height, v_rendered, v_multi, v_multi_out, v_mono, v_mono_out,
                   v_mono_done>>
    /\ UNCHANGED <<hitVars, colorVars, renderVars, objVars, boxVars, shapeVars, treeVars,
                   camVars, sceneVars, textureVars, quantVars, getrayVars, expandVars,
                   oldVars, buildVars>>

\* the loop of _render_block for block k
BlockLoop(k) ==
    /\ cover_pc = "blocks"
    /\ k \notin v_rendered
    /\ LET coords == BlockCoords(v_blocks[k].range_x, v_blocks[k].range_y)
       IN  /\ v_multi' = Counted(v_multi, coords)
           /\ v_multi_out' = v_multi_out \cup Outside(v_width, v_height, coords)
    /\ v_rendered' = v_rendered \cup {k}
    /\ UNCHANGED <<v_width, v_height, v_blocks, v_mono, v_mono_out, v_mono_done, cover_pc>>
    /\ UNCHANGED <<hitVars, colorVars, renderVars, objVars, boxVars, shapeVars, treeVars,
                   camVars, sceneVars, textureVars, quantVars, getrayVars, expandVars,
                   oldVars, buildVars>>

CoverNext ==
    \/ MonoLoop
    \/ GenerateBlocks
    \/ \E k \in DOMAIN v_blocks : BlockLoop(k)

SpecCover == CoverInit /\ [][CoverNext]_vars

AllBlocksRendered == cover_pc = "blocks" /\ v_rendered = DOMAIN v_blocks

\* C27: for every image size the block loops make exactly one pass for every
\* pixel of the image and none for a coordinate outside it, and so does the
\* loop of render_mono; no pixel is ever rendered twice.
C27_EveryPixelOnce ==
    /\ v_multi_out = {}
    /\ v_mono_out = {}
    /\ \A p \in DOMAIN v_multi : v_multi[p] <= 1
    /\ AllBlocksRendered => \A p \in DOMAIN v_multi : v_multi[p] = 1
    /\ v_mono_done => \A p \in DOMAIN v_mono : v_mono[p] = 1

\* both loops have run on an image that is taller than wide, takes several
\* blocks and has partial blocks on both sides
C27_Witness ==
    /\ v_mono_done
    /\ AllBlocksRendered
    /\ Len(v_blocks) > 1
    /\ v_width < v_height
    /\ v_width % _MULTIPROCESS_BLOCK_SIZE # 0
    /\ v_height % _MULTIPROCESS_BLOCK_SIZE # 0

(***************************************************************************)
(* BVHNode(asset_list, start, end) of rtrace/hittable.py                   *)
(*                                                                         *)
(* Every node works on the one list it was given, between the indexes      *)
(* start and end (0-based, end excluded).  Sphere, Quad and the bbox of    *)
(* each are the same code as in rtrace/assets/hittable.py.  The lists hold *)
(* different primitives, at least one.  random.choice draws a comparator   *)
(* in every node: o_axes gives the draw of the root, of its left child, of *)
(* its right child and of the nodes below them.                            *)
(***************************************************************************)
MaxOldSpan == 5

OldPool == {quadA, quadB, sphereC,
            Quad(<<2, 0, 0>>, <<4, 0, 0>>, <<0, 8, 0>>, "matA"),
            Quad(<<3, 0, -3>>, <<4, 0, 0>>, <<0, 8, 0>>, "matB"),
            Quad(<<-2, 5, 1>>, <<4, 0, 0>>, <<0, 8, 0>>, "matC")}

OldLists ==
    {l \in UNION {[1..n -> OldPool] : n \in 1..MaxOldSpan} :
        \A i \in DOMAIN l, j \in DOMAIN l : l[i] = l[j] => i = j}

OldAxes == [root : 1..3, left : 1..3, right : 1..3, below : 1..3]

\* the draw of the node reached from the root by `path`
AxisAt(axes, path) ==
    IF path = <<>> THEN axes.root
    ELSE IF path = <<"left">> THEN axes.left
    ELSE IF path = <<"right">> THEN axes.right
    ELSE axes.below

\* BVHNode(asset_list, start, end): the node, and asset_list as the
\* construction leaves it
RECURSIVE OldBVHNode(_, _, _, _, _)
OldBVHNode(asset_list, start, end, axes, path) ==
    LET object_span == end - start
    IN  IF object_span = 1 THEN
            [node |-> [kind |-> "bvh", left |-> asset_list[start + 1],
                       right |-> asset_list[start + 1],
                       bbox |-> AABBFromBox(asset_list[start + 1].bbox,
                                            asset_list[start + 1].bbox)],
             list |-> asset_list]
        ELSE IF object_span = 2 THEN
            [node |-> [kind |-> "bvh", left |-> asset_list[start + 1],
                       right |-> asset_list[start + 2],
                       bbox |-> AABBFromBox(asset_list[start + 1].bbox,
                                            asset_list[start + 2].bbox)],
             list |-> asset_list]
        ELSE LET sorted == ListSort(asset_list, AxisAt(axes, path))
                 mid == start + (object_span \div 2)
                 left == OldBVHNode(sorted, start, mid, axes, Append(path, "left"))
                 right == OldBVHNode(left.list, mid, end, axes, Append(path, "right"))
             IN  [node |-> [kind |-> "bvh", left |-> left.node, right |-> right.node,
                            bbox |-> AABBFromBox(left.node.bbox, right.node.bbox)],
                  list |-> right.list]

OldInit ==
    /\ HitIdle
    /\ ColorIdle
    /\ RenderIdle
    /\ ObjIdle
    /\ GeomIdle
    /\ SceneIdle
    /\ TextureIdle
    /\ QuantIdle
    /\ GetRayIdle
    /\ ExpandIdle
    /\ CoverIdle
    /\ BuildIdle
    /\ o_list \in OldLists
    /\ o_axes = <<>>
    /\ o_node = <<>>
    /\ o_after = <<>>
    /\ old_pc = "new"

\* BVHNode(o_list): end = end or len(asset_list)
NewOldBVHNode ==
    /\ old_pc = "new"
    /\ \E axes \in OldAxes :
          /\ o_axes' = axes
          /\ o_node' = OldBVHNode(o_list, 0, Len(o_list), axes, <<>>).node
          /\ o_after' = OldBVHNode(o_list, 0, Len(o_list), axes, <<>>).list
    /\ old_pc' = "done"
    /\ UNCHANGED o_list
    /\ UNCHANGED <<hitVars, colorVars, renderVars, objVars, boxVars, shapeVars, treeVars,
                   camVars, sceneVars, textureVars, quantVars, getrayVars, expandVars,
                   coverVars, buildVars>>

OldNext ==
    \/ NewOldBVHNode

SpecOldTree == OldInit /\ [][OldNext]_vars

\* C28 (as claimed): whatever the comparators drawn, every primitive of the
\* list given is at a leaf of the tree, and the two children of every node
\* hold different primitives.
C28_NoPrimitiveLost ==
    old_pc = "done" =>
        /\ LeavesOf(o_node) = Range(o_list)
        /\ \A n \in NodesOf(o_node) :
              IsNode(n.left) => LeavesOf(n.left) \cap LeavesOf(n.right) = {}

\* no primitive is lost when every node draws the comparator of the root,
\* nor from a list of at most 4 primitives
SameAxisKeepsAll ==
    (/\ old_pc = "done"
     /\ \/ Len(o_list) <= 4
        \/ o_axes.left = o_axes.root /\ o_axes.right = o_axes.root /\ o_axes.below = o_axes.root)
        => LeavesOf(o_node) = Range(o_list)

\* ---------------------------------------------------------------------
\* BVHNode.__init__ of rtrace/assets/hittable.py, call by call.  Which
\* branch a call takes and the lists it passes on depend on len(asset_list)
\* only, so a frame holds the length of its list.

\* the longest list given to a constructor
MaxBuildLen == 8

\* sys.getrecursionlimit(): the deepest nesting of calls before Python
\* raises RecursionError
RecursionLimit == 6

BuildOther == <<hitVars, colorVars, renderVars, objVars, boxVars, shapeVars, treeVars,
                camVars, sceneVars, textureVars, quantVars, getrayVars, expandVars,
                coverVars, oldVars>>

\* a call BVHNode(asset_list, sort_assets) with len(asset_list) = span, at
\* its first statement
Frame(span, sort_assets) ==
    [span |-> span, sort_assets |-> sort_assets, stage |-> "start"]

\* mid = (object_span // 2)
Mid(object_span) == object_span \div 2

\* len(asset_list[:mid])
LeftSpan(object_span) == Mid(object_span)

\* len(asset_list[mid:])
RightSpan(object_span) == object_span - Mid(object_span)

\* object_span == 1 or object_span == 2: the node takes its children from
\* the list and constructs no other node
IsLeafSpan(object_span) == object_span = 1 \/ object_span = 2

Top == bd_stack[Len(bd_stack)]

SetTop(stage) == [bd_stack EXCEPT ![Len(bd_stack)].stage = stage]

BuildInit ==
    /\ HitIdle
    /\ ColorIdle
    /\ RenderIdle
    /\ ObjIdle
    /\ GeomIdle
    /\ SceneIdle
    /\ TextureIdle
    /\ QuantIdle
    /\ GetRayIdle
    /\ ExpandIdle
    /\ CoverIdle
    /\ OldIdle
    /\ bd_entry = ""
    /\ bd_len = 0
    /\ bd_use_bvh = FALSE
    /\ bd_stack = <<>>
    /\ bd_calls = 0
    /\ build_pc = "new"

\* HittableList(objects, use_bvh=...): the objects are added with
\* suppress_bvh_updates=True, then `if use_bvh: self.bvh = BVHNode(self.assets)`
NewHittableList ==
    /\ build_pc = "new"
    /\ \E n \in 0 .. MaxBuildLen, use_bvh \in BOOLEAN :
          /\ bd_entry' = "HittableList"
          /\ bd_len' = n
          /\ bd_use_bvh' = use_bvh
          /\ IF use_bvh
                THEN /\ bd_stack' = <<Frame(n, TRUE)>>
                     /\ bd_calls' = 1
                     /\ build_pc' = "building"
                ELSE /\ bd_stack' = <<>>
                     /\ bd_calls' = 0
                     /\ build_pc' = "done"
    /\ UNCHANGED BuildOther

\* Model(face_list, mat): super().__init__(face_list, use_bvh=True)
NewModel ==
    /\ build_pc = "new"
    /\ \E n \in 0 .. MaxBuildLen :
          /\ bd_entry' = "Model"
          /\ bd_len' = n
          /\ bd_use_bvh' = TRUE
          /\ bd_stack' = <<Frame(n, TRUE)>>
          /\ bd_calls' = 1
          /\ build_pc' = "building"
    /\ UNCHANGED BuildOther

\* object_span == 1, object_span == 2: left and right are taken from the list
BVHNodeLeaf ==
    /\ build_pc = "building"
    /\ Top.stage = "start"
    /\ IsLeafSpan(Top.span)
    /\ bd_stack' = SetTop("bbox")
    /\ UNCHANGED <<bd_entry, bd_len, bd_use_bvh, bd_calls, build_pc>>
    /\ UNCHANGED BuildOther

\* else: (the sort, then) self.left = BVHNode(asset_list[:mid], sort_assets=False)
BVHNodeLeft ==
    /\ build_pc = "building"
    /\ Top.stage = "start"
    /\ ~IsLeafSpan(Top.span)
    /\ Len(bd_stack) < RecursionLimit
    /\ bd_stack' = Append(SetTop("left"), Frame(LeftSpan(Top.span), FALSE))
    /\ bd_calls' = bd_calls + 1
    /\ UNCHANGED <<bd_entry, bd_len, bd_use_bvh, build_pc>>
    /\ UNCHANGED BuildOther

\* self.right = BVHNode(asset_list[mid:], sort_assets=False)
BVHNodeRight ==
    /\ build_pc = "building"
    /\ Top.stage = "left_built"
    /\ Len(bd_stack) < RecursionLimit
    /\ bd_stack' = Append(SetTop("right"), Frame(RightSpan(Top.span), FALSE))
    /\ bd_calls' = bd_calls + 1
    /\ UNCHANGED <<bd_entry, bd_len, bd_use_bvh, build_pc>>
    /\ UNCHANGED BuildOther

\* self.bbox = AABB.from_box(...); self.bbox_hit = self.bbox.hit; the call
\* returns to the frame that made it, or to the constructor of the list
BVHNodeReturn ==
    /\ build_pc = "building"
    /\ Top.stage = "bbox"
    /\ LET rest == SubSeq(bd_stack, 1, Len(bd_stack) - 1)
       IN  IF rest = <<>>
              THEN /\ bd_stack' = <<>>
                   /\ build_pc' = "done"
              ELSE /\ bd_stack' = [rest EXCEPT ![Len(rest)].stage =
                                      IF rest[Len(rest)].stage = "left"
                                         THEN "left_built" ELSE "bbox"]
                   /\ build_pc' = "building"
    /\ UNCHANGED <<bd_entry, bd_len, bd_use_bvh, bd_calls>>
    /\ UNCHANGED BuildOther

\* a call nested deeper than the recursion limit: RecursionError leaves
\* every frame and the constructor
BVHNodeRecursionError ==
    /\ build_pc = "building"
    /\ \/ Top.stage = "start" /\ ~IsLeafSpan(Top.span)
       \/ Top.stage = "left_built"
    /\ Len(bd_stack) >= RecursionLimit
    /\ bd_stack' = <<>>
    /\ build_pc' = "raised"
    /\ UNCHANGED <<bd_entry, bd_len, bd_use_bvh, bd_calls>>
    /\ UNCHANGED BuildOther

BuildNext ==
    \/ NewHittableList
    \/ NewModel
    \/ BVHNodeLeaf
    \/ BVHNodeLeft
    \/ BVHNodeRight
    \/ BVHNodeReturn
    \/ BVHNodeRecursionError

SpecBuild == BuildInit /\ [][BuildNext]_vars

\* a call that can run does run
FairSpecBuild == SpecBuild /\ WF_vars(BuildNext)

\* every call on the stack was given a strictly shorter list than its caller
CallsOnShorterLists ==
    \A i \in 2 .. Len(bd_stack) : bd_stack[i].span < bd_stack[i - 1].span

\* C30 (as claimed): the construction of a BVHNode that has begun returns,
\* for every list including the empty one, and every recursive call is made
\* on a strictly shorter list.
C30_ConstructionTerminates ==
    /\ (build_pc = "building") ~> (build_pc = "done")
    /\ [](CallsOnShorterLists /\ build_pc # "raised")

\* from a list that is not empty the construction returns, each call on a
\* strictly shorter list
NonEmptyConstructionTerminates ==
    /\ (build_pc = "building" /\ bd_len > 0) ~> (build_pc = "done")
    /\ [](bd_len > 0 => CallsOnShorterLists /\ build_pc # "raised")

\* on the empty list every call passes the empty list on, until RecursionError
EmptyConstructionRaises ==
    (build_pc = "building" /\ bd_len = 0) ~> (build_pc = "raised")

====
